---- MODULE Spec2Model ----
(***************************************************************************)
(* A model of the world-generation core of Ascii-RPG: the Wave Function    *)
(* Collapse dungeon generator, the settlement and building generators,     *)
(* the location manager and the tile queries of the world facade.          *)
(*                                                                         *)
(* Each subsystem has its own specification (SpecWFC, SpecWFCSteps,        *)
(* SpecThemed, SpecClassic, SpecLoc, SpecGuided, SpecEnter, SpecCan,       *)
(* SpecQuery, SpecRender, SpecSettle, SpecBuild, SpecLoot) over the one    *)
(* set of variables; the variables a specification does not use keep the   *)
(* value Idle.                                                             *)
(***************************************************************************)
EXTENDS Integers, Sequences, FiniteSets, TLC

VARIABLES
    pc,                 \* position in the operation being run
    width, height,      \* grid size handed to the generator
    max_attempts,       \* generate_dungeon(max_attempts=...)
    entrance_locations, \* generate_dungeon(entrance_locations): overworld positions
    possibilities,      \* _run_wfc: cell -> set of still possible tile ids
    attempts,           \* _run_wfc: collapse iterations done
    stack,              \* _propagate_constraints: pending cells
    dungeon_map,        \* cell -> dungeon tile id
    floor_areas,        \* _connect_areas: the areas found before the repair
    idx,                \* index of the loop a step-wise operation is in
    rooms,              \* bounding rectangles of the areas with >= 9 cells
    entrance_stairs,    \* records {dungeon_pos, overworld_pos}
    treasure_chests,    \* records {pos}, with their item where looting is modelled
    terrain_map,        \* overworld: cell -> tile id
    buildings,          \* the building records generated so far
    settlement_locations, \* generate_settlements(settlement_locations)
    settlements,        \* the settlement records laid out so far
    settlement,         \* the settlement being laid out
    building_types,     \* _layout_settlement: the manifest still to place
    placed_positions,   \* _layout_settlement: positions accepted so far
    placed_on,          \* per placed building, the terrain its footprint replaced
    current_location,   \* LocationManager.current_location
    previous_location,  \* LocationManager.previous_location
    saved_positions,    \* LocationManager.saved_positions
    current_building,   \* BuildingManager.current_building (index, 0 for None)
    player,             \* the actor: x, y, location (and inventory when looting)
    last_call,          \* the call just made, with its arguments and its result
    trip,               \* where the round trip under way began
    world_managers,     \* whether the world object has location_manager and building_manager
    overworld_tiles,    \* World.overworld_tiles: cell -> tile instance with effects
    ticks               \* pygame.time.get_ticks(), in milliseconds

wfcOnlyVars == <<max_attempts, entrance_locations, possibilities, attempts, stack,
                 floor_areas, idx, rooms, entrance_stairs, treasure_chests>>
settleVars == <<settlement_locations, settlements, settlement, building_types,
                placed_positions, placed_on>>
locVars == <<current_location, previous_location, saved_positions,
             current_building, player, trip, world_managers>>
tileVars == <<overworld_tiles, ticks>>
nonWFCVars == <<terrain_map, buildings, settleVars, locVars, tileVars, last_call>>

vars == <<pc, width, height, dungeon_map, wfcOnlyVars, nonWFCVars>>

Idle == "idle"

WFCOnlyIdle ==
    /\ max_attempts = Idle /\ entrance_locations = Idle /\ possibilities = Idle
    /\ attempts = Idle /\ stack = Idle /\ floor_areas = Idle /\ idx = Idle
    /\ rooms = Idle /\ entrance_stairs = Idle /\ treasure_chests = Idle
SettleIdle ==
    /\ settlement_locations = Idle /\ settlements = Idle /\ settlement = Idle
    /\ building_types = Idle /\ placed_positions = Idle /\ placed_on = Idle
LocIdle ==
    /\ current_location = Idle /\ previous_location = Idle /\ saved_positions = Idle
    /\ current_building = Idle /\ player = Idle /\ trip = Idle
    /\ world_managers = Idle
TileIdle == overworld_tiles = Idle /\ ticks = Idle
NonWFCIdle ==
    /\ terrain_map = Idle /\ buildings = Idle /\ SettleIdle /\ LocIdle /\ TileIdle
    /\ last_call = Idle

(***************************************************************************)
(* Bounds of the model.                                                    *)
(***************************************************************************)
MaxAttempts == 9        \* the largest attempt ceiling tried
LowAttempts == 2        \* a ceiling the collapse loop runs into
MaxEntrances == 2       \* the longest entrance list tried

(***************************************************************************)
(* Small helpers.                                                          *)
(***************************************************************************)
Min(a, b) == IF a <= b THEN a ELSE b
Max(a, b) == IF a >= b THEN a ELSE b
Abs(a) == IF a < 0 THEN -a ELSE a
SetMin(S) == CHOOSE m \in S : \A n \in S : m <= n
SetMax(S) == CHOOSE m \in S : \A n \in S : m >= n
Cells(w, h) == (0 .. w - 1) \X (0 .. h - 1)
InGrid(x, y, w, h) == 0 <= x /\ x < w /\ 0 <= y /\ y < h
\* position of a cell in a row-major scan (for y: for x:)
RowMajor(c, w) == c[2] * w + c[1]

(***************************************************************************)
(* wfc_dungeon_generator.py: tiles, patterns and the adjacency table.      *)
(***************************************************************************)
tile_types ==
    {"wall", "floor", "door", "corridor", "room_floor", "pillar", "stairs_up", "treasure"}

room_patterns == <<
    << <<"wall", "wall", "wall">>,
       <<"wall", "room_floor", "wall">>,
       <<"wall", "wall", "wall">> >>,
    << <<"wall", "wall", "wall">>,
       <<"wall", "room_floor", "door">>,
       <<"wall", "wall", "wall">> >>,
    << <<"wall", "corridor", "wall">>,
       <<"corridor", "corridor", "corridor">>,
       <<"wall", "corridor", "wall">> >>,
    << <<"wall", "wall", "wall">>,
       <<"wall", "corridor", "corridor">>,
       <<"wall", "corridor", "wall">> >>,
    << <<"wall", "wall", "wall">>,
       <<"wall", "room_floor", "room_floor">>,
       <<"wall", "room_floor", "room_floor">> >>,
    << <<"room_floor", "room_floor", "room_floor">>,
       <<"room_floor", "pillar", "room_floor">>,
       <<"room_floor", "room_floor", "room_floor">> >>,
    << <<"wall", "wall", "wall">>,
       <<"wall", "treasure", "wall">>,
       <<"wall", "door", "wall">> >> >>

\* WFCPattern.rotate_90: rotated[j][2-i] = tiles[i][j] (0-based), so
\* rotated[r][c] = tiles[2-c][r]; 1-based: rotated[r][c] = tiles[4-c][r]
rotate_90(tiles) == [r \in 1 .. 3 |-> [c \in 1 .. 3 |-> tiles[4 - c][r]]]

\* WFCPattern.get_all_rotations: the pattern and its three further rotations
get_all_rotations(tiles) ==
    <<tiles, rotate_90(tiles), rotate_90(rotate_90(tiles)),
      rotate_90(rotate_90(rotate_90(tiles)))>>

\* _init_patterns: every template followed by its rotations
PatternsOf(templates) ==
    UNION {{get_all_rotations(templates[k])[r] : r \in 1 .. 4} : k \in 1 .. Len(templates)}

Directions == << <<-1, 0>>, <<1, 0>>, <<0, -1>>, <<0, 1>> >>

\* _build_adjacency_rules: the tiles seen next to tile t inside some pattern
AdjacencyOf(pats, t) ==
    {p[ni][nj] : <<p, ni, nj>> \in
        {<<p, i + Directions[d][1], j + Directions[d][2]>> :
            <<p, i, j, d>> \in
                {q \in pats \X (1 .. 3) \X (1 .. 3) \X (1 .. 4) :
                    /\ q[1][q[2]][q[3]] = t
                    /\ q[2] + Directions[q[4]][1] \in 1 .. 3
                    /\ q[3] + Directions[q[4]][2] \in 1 .. 3}}}

\* the defaultdict(set): a tile that is in no pattern has the empty set
adjacency_rules == [t \in tile_types |-> AdjacencyOf(PatternsOf(room_patterns), t)]

\* a conversion that opens every tile
ConvertEverythingToFloor(tile_id) == "dungeon_floor"

\* _convert_tile_to_dungeon_tile
_convert_tile_to_dungeon_tile(tile_id) ==
    CASE tile_id = "wall" -> "dungeon_wall"
      [] tile_id = "floor" -> "dungeon_floor"
      [] tile_id = "door" -> "dungeon_floor"
      [] tile_id = "corridor" -> "dungeon_floor"
      [] tile_id = "room_floor" -> "dungeon_floor"
      [] tile_id = "pillar" -> "dungeon_wall"
      [] tile_id = "stairs_up" -> "stairs_up"
      [] tile_id = "treasure" -> "treasure_chest"
      [] OTHER -> "dungeon_wall"

\* a grid whose border cells are left open like the others
GridWithOpenBorder(w, h) == [c \in Cells(w, h) |-> tile_types]

\* _init_wfc_grid: border cells are pinned to wall, the others hold every tile
_init_wfc_grid(w, h) ==
    [c \in Cells(w, h) |->
        IF c[1] = 0 \/ c[1] = w - 1 \/ c[2] = 0 \/ c[2] = h - 1
        THEN {"wall"} ELSE tile_types]

(***************************************************************************)
(* _propagate_constraints.                                                 *)
(***************************************************************************)
\* the union of the allowed neighbours of the tiles still possible in a cell
ValidNeighbors(current_tiles) == UNION {adjacency_rules[t] : t \in current_tiles}

\* Whether a filtered neighbour is written back and pushed: the code's
\* len(new_possibilities) < len(neighbor_possibilities)
Reduced(new_possibilities, neighbor_possibilities) ==
    Cardinality(new_possibilities) < Cardinality(neighbor_possibilities)

\* The body of the loop over the four neighbours of the popped cell c, from
\* direction k on: st is [poss, stack]; current_tiles was read at the pop.
RECURSIVE PropagateNeighbors(_, _, _, _, _, _)
PropagateNeighbors(st, c, current_tiles, k, w, h) ==
    IF k > 4 THEN st
    ELSE LET nx == c[1] + Directions[k][1]
             ny == c[2] + Directions[k][2]
         IN  IF ~InGrid(nx, ny, w, h)
             THEN PropagateNeighbors(st, c, current_tiles, k + 1, w, h)
             ELSE LET neighbor_possibilities == st.poss[<<nx, ny>>]
                      new_possibilities ==
                          neighbor_possibilities \cap ValidNeighbors(current_tiles)
                  IN  IF Reduced(new_possibilities, neighbor_possibilities)
                      THEN PropagateNeighbors(
                               [poss |-> [st.poss EXCEPT ![<<nx, ny>>] = new_possibilities],
                                stack |-> IF new_possibilities # {}
                                          THEN Append(st.stack, <<nx, ny>>)
                                          ELSE st.stack],
                               c, current_tiles, k + 1, w, h)
                      ELSE PropagateNeighbors(st, c, current_tiles, k + 1, w, h)

\* a stack that is read but not popped
PoppedKept(stk) == stk

\* what stack.pop() leaves on the stack
Popped(stk) == SubSeq(stk, 1, Len(stk) - 1)

\* One iteration of "while stack": pop the last cell and visit its neighbours
PropagateStep(poss, stk, w, h) ==
    LET c == stk[Len(stk)]
    IN  PropagateNeighbors([poss |-> poss, stack |-> Popped(stk)], c, poss[c], 1, w, h)

\* _propagate_constraints run until its stack is empty
RECURSIVE PropagateAll(_, _, _, _)
PropagateAll(poss, stk, w, h) ==
    IF stk = <<>> THEN poss
    ELSE LET r == PropagateStep(poss, stk, w, h)
         IN  PropagateAll(r.poss, r.stack, w, h)

_propagate_constraints(start, w, h, poss) == PropagateAll(poss, <<start>>, w, h)

(***************************************************************************)
(* _run_wfc.                                                               *)
(***************************************************************************)
\* every cell that still holds more than one tile, whatever its entropy
CandidatesAnyOpen(poss) == {c \in DOMAIN poss : Cardinality(poss[c]) > 1}

\* the cells tied at the minimum entropy above 1
Candidates(poss) ==
    {c \in DOMAIN poss :
        /\ Cardinality(poss[c]) > 1
        /\ \A d \in DOMAIN poss :
              Cardinality(poss[d]) > 1 => Cardinality(poss[c]) <= Cardinality(poss[d])}

\* a choice that ignores what the cell still allows
ChoosableAnyTile(possible_tiles) == tile_types

\* the tiles random.choices can return: every weight is positive
ChoosableTiles(possible_tiles) == possible_tiles

\* a map whose fallback for a cell without exactly one tile is floor
ConvertMapOpenFallback(poss) ==
    [c \in DOMAIN poss |->
        IF Cardinality(poss[c]) = 1
        THEN _convert_tile_to_dungeon_tile(CHOOSE t \in poss[c] : TRUE)
        ELSE "dungeon_floor"]

\* the final map: a cell with one possibility is converted, any other is wall
ConvertMap(poss) ==
    [c \in DOMAIN poss |->
        IF Cardinality(poss[c]) = 1
        THEN _convert_tile_to_dungeon_tile(CHOOSE t \in poss[c] : TRUE)
        ELSE "dungeon_wall"]

(***************************************************************************)
(* _find_floor_areas, _connect_areas, _create_corridor.                    *)
(***************************************************************************)
Neighbours4(c, w, h) ==
    {n \in {<<c[1] + Directions[k][1], c[2] + Directions[k][2]>> : k \in 1 .. 4} :
        InGrid(n[1], n[2], w, h)}

\* the flood fill of _find_floor_areas from the cells in frontier, over the
\* cells of the set open
RECURSIVE Flood(_, _, _, _, _)
Flood(frontier, area, open, w, h) ==
    IF frontier = {} THEN area
    ELSE LET next == (UNION {Neighbours4(c, w, h) : c \in frontier}) \cap (open \ area)
         IN  Flood(next, area \cup next, open, w, h)

AreaOf(c, open, w, h) == Flood({c}, {c}, open, w, h)

FloorCells(map) == {c \in DOMAIN map : map[c] = "dungeon_floor"}

\* the areas in the order the row-major scan meets their first cell
RECURSIVE AreasFrom(_, _, _)
AreasFrom(open, w, h) ==
    IF open = {} THEN <<>>
    ELSE LET first == CHOOSE c \in open :
                          \A d \in open : RowMajor(c, w) <= RowMajor(d, w)
             area == AreaOf(first, open, w, h)
         IN  <<area>> \o AreasFrom(open \ area, w, h)

_find_floor_areas(map, w, h) == AreasFrom(FloorCells(map), w, h)

\* max(floor_areas, key=len): the first area of the greatest size
LargestArea(areas) ==
    areas[CHOOSE i \in 1 .. Len(areas) :
              /\ \A j \in 1 .. Len(areas) : Cardinality(areas[j]) <= Cardinality(areas[i])
              /\ \A j \in 1 .. i - 1 : Cardinality(areas[j]) < Cardinality(areas[i])]

\* the cells the horizontal leg writes: row y1, from x1 up to but not
\* including x2
HorizontalLeg(x1, y1, x2) ==
    {<<x, y1>> : x \in IF x1 <= x2 THEN x1 .. x2 - 1 ELSE x2 + 1 .. x1}

\* the cells the vertical leg writes: column x2, from y1 up to but not
\* including y2
VerticalLeg(x2, y1, y2) ==
    {<<x2, y>> : y \in IF y1 <= y2 THEN y1 .. y2 - 1 ELSE y2 + 1 .. y1}

\* a corridor that stops at the corner: the vertical leg is missing
CorridorHorizontalOnly(map, start, target, w, h) ==
    LET carved == {c \in HorizontalLeg(start[1], start[2], target[1]) :
                      InGrid(c[1], c[2], w, h)}
    IN  [c \in DOMAIN map |-> IF c \in carved THEN "dungeon_floor" ELSE map[c]]

_create_corridor(map, start, target, w, h) ==
    LET carved == {c \in HorizontalLeg(start[1], start[2], target[1])
                         \cup VerticalLeg(target[1], start[2], target[2]) :
                      InGrid(c[1], c[2], w, h)}
    IN  [c \in DOMAIN map |-> IF c \in carved THEN "dungeon_floor" ELSE map[c]]

(***************************************************************************)
(* _place_special_features.                                                *)
(***************************************************************************)
MinRoomArea == 9

\* pygame.Rect(min_x, min_y, max_x - min_x + 1, max_y - min_y + 1)
BoundingRect(area) ==
    LET xs == {c[1] : c \in area}
        ys == {c[2] : c \in area}
    IN  [left |-> SetMin(xs), top |-> SetMin(ys),
         w |-> SetMax(xs) - SetMin(xs) + 1, h |-> SetMax(ys) - SetMin(ys) + 1]

\* the cells random.randint(left, right - 1), random.randint(top, bottom - 1)
\* can name
RectCells(r) == (r.left .. r.left + r.w - 1) \X (r.top .. r.top + r.h - 1)

RECURSIVE RoomsOf(_)
RoomsOf(areas) ==
    IF areas = <<>> THEN <<>>
    ELSE (IF Cardinality(Head(areas)) >= MinRoomArea
          THEN <<BoundingRect(Head(areas))>> ELSE <<>>) \o RoomsOf(Tail(areas))

(***************************************************************************)
(* generate_dungeon as a state machine (SpecWFC).  One Collapse step is    *)
(* one iteration of the loop of _run_wfc, its propagation included.        *)
(***************************************************************************)
\* the overworld positions handed in: only their number and identity matter
EntranceList(n) == [i \in 1 .. n |-> <<10 * i, 10 * i>>]

\* the calls explored: <<width, height, max_attempts, number of entrances>>
WFCInputs ==
    {<<5, 5, MaxAttempts, MaxEntrances>>}
    \cup {<<5, 4, a, n>> : a \in {LowAttempts, MaxAttempts}, n \in 0 .. MaxEntrances}

WFCStart(in) ==
    /\ width = in[1]
    /\ height = in[2]
    /\ max_attempts = in[3]
    /\ entrance_locations = EntranceList(in[4])
    /\ possibilities = _init_wfc_grid(in[1], in[2])
    /\ attempts = 0
    /\ stack = <<>>
    /\ dungeon_map = <<>>
    /\ floor_areas = <<>>
    /\ idx = 0
    /\ rooms = <<>>
    /\ entrance_stairs = <<>>
    /\ treasure_chests = <<>>
    /\ NonWFCIdle

InitWFC == pc = "run_wfc" /\ \E in \in WFCInputs : WFCStart(in)

\* the condition of "while attempts < max_attempts" and of "if not candidates"
LoopRuns(att, poss) == att < max_attempts /\ Candidates(poss) # {}

\* one iteration: pick a candidate, pin it to a tile, propagate
Collapse ==
    /\ pc = "run_wfc"
    /\ LoopRuns(attempts, possibilities)
    /\ \E c \in Candidates(possibilities) :
          \E chosen_tile \in ChoosableTiles(possibilities[c]) :
              possibilities' = _propagate_constraints(c, width, height,
                                   [possibilities EXCEPT ![c] = {chosen_tile}])
    /\ attempts' = attempts + 1
    /\ UNCHANGED <<pc, width, height, max_attempts, entrance_locations, stack,
                   dungeon_map, floor_areas, idx, rooms, entrance_stairs,
                   treasure_chests>>
    /\ UNCHANGED nonWFCVars

\* the end of _run_wfc (the map is derived, the wave is dropped) and the
\* flood fill that opens _connect_areas
FinishWFC ==
    /\ pc = "run_wfc"
    /\ ~LoopRuns(attempts, possibilities)
    /\ dungeon_map' = ConvertMap(possibilities)
    /\ floor_areas' = _find_floor_areas(ConvertMap(possibilities), width, height)
    /\ possibilities' = <<>>
    /\ attempts' = 0
    /\ idx' = 1
    /\ pc' = "connect"
    /\ UNCHANGED <<width, height, max_attempts, entrance_locations, stack, rooms,
                   entrance_stairs, treasure_chests>>
    /\ UNCHANGED nonWFCVars

\* one iteration of "for area in floor_areas" of _connect_areas
ConnectArea ==
    /\ pc = "connect"
    /\ Len(floor_areas) > 1
    /\ idx <= Len(floor_areas)
    /\ \/ /\ floor_areas[idx] = LargestArea(floor_areas)
          /\ UNCHANGED dungeon_map
       \/ /\ floor_areas[idx] # LargestArea(floor_areas)
          /\ \E start \in floor_areas[idx] :
                \E target \in LargestArea(floor_areas) :
                    dungeon_map' = _create_corridor(dungeon_map, start, target,
                                                    width, height)
    /\ idx' = idx + 1
    /\ UNCHANGED <<pc, width, height, max_attempts, entrance_locations,
                   possibilities, attempts, stack, floor_areas, rooms,
                   entrance_stairs, treasure_chests>>
    /\ UNCHANGED nonWFCVars

\* _connect_areas returns; _place_special_features finds the rooms
FindRooms ==
    /\ pc = "connect"
    /\ Len(floor_areas) <= 1 \/ idx > Len(floor_areas)
    /\ rooms' = RoomsOf(_find_floor_areas(dungeon_map, width, height))
    /\ floor_areas' = <<>>
    /\ idx' = 1
    /\ pc' = "stairs"
    /\ UNCHANGED <<width, height, max_attempts, entrance_locations, possibilities,
                   attempts, stack, dungeon_map, entrance_stairs, treasure_chests>>
    /\ UNCHANGED nonWFCVars

\* the guard "if i < len(rooms) and rooms" for the 1-based entrance number i
StairsWanted(i, rms) == i - 1 < Len(rms) /\ rms # <<>>

\* one iteration of "for i, entrance_pos in enumerate(entrance_locations)"
PlaceStairs ==
    /\ pc = "stairs"
    /\ idx <= Len(entrance_locations)
    /\ \/ /\ ~StairsWanted(idx, rooms)
          /\ UNCHANGED <<dungeon_map, entrance_stairs>>
       \/ /\ StairsWanted(idx, rooms)
          /\ \E r \in 1 .. Len(rooms) :
                \E cell \in RectCells(rooms[r]) :
                    IF /\ InGrid(cell[1], cell[2], width, height)
                       /\ dungeon_map[cell] = "dungeon_floor"
                    THEN /\ dungeon_map' = [dungeon_map EXCEPT ![cell] = "stairs_up"]
                         /\ entrance_stairs' = Append(entrance_stairs,
                                [dungeon_pos |-> cell,
                                 overworld_pos |-> entrance_locations[idx]])
                    ELSE UNCHANGED <<dungeon_map, entrance_stairs>>
    /\ idx' = idx + 1
    /\ UNCHANGED <<pc, width, height, max_attempts, entrance_locations,
                   possibilities, attempts, stack, floor_areas, rooms,
                   treasure_chests>>
    /\ UNCHANGED nonWFCVars

StartTreasure ==
    /\ pc = "stairs"
    /\ idx > Len(entrance_locations)
    /\ idx' = 1
    /\ pc' = "treasure"
    /\ UNCHANGED <<width, height, max_attempts, entrance_locations, possibilities,
                   attempts, stack, dungeon_map, floor_areas, rooms,
                   entrance_stairs, treasure_chests>>
    /\ UNCHANGED nonWFCVars

\* one iteration of "for room in rooms": the 30% roll, then the cell
PlaceTreasure ==
    /\ pc = "treasure"
    /\ idx <= Len(rooms)
    /\ \/ UNCHANGED <<dungeon_map, treasure_chests>>
       \/ \E cell \in RectCells(rooms[idx]) :
             /\ InGrid(cell[1], cell[2], width, height)
             /\ dungeon_map[cell] = "dungeon_floor"
             /\ dungeon_map' = [dungeon_map EXCEPT ![cell] = "treasure_chest"]
             /\ treasure_chests' = Append(treasure_chests, [pos |-> cell])
    /\ idx' = idx + 1
    /\ UNCHANGED <<pc, width, height, max_attempts, entrance_locations,
                   possibilities, attempts, stack, floor_areas, rooms,
                   entrance_stairs>>
    /\ UNCHANGED nonWFCVars

\* generate_dungeon returns its dictionary
ReturnDungeon ==
    /\ pc = "treasure"
    /\ idx > Len(rooms)
    /\ pc' = "returned"
    /\ UNCHANGED <<width, height, max_attempts, entrance_locations, possibilities,
                   attempts, stack, dungeon_map, floor_areas, idx, rooms,
                   entrance_stairs, treasure_chests>>
    /\ UNCHANGED nonWFCVars

NextWFC ==
    \/ Collapse
    \/ FinishWFC
    \/ ConnectArea
    \/ FindRooms
    \/ PlaceStairs
    \/ StartTreasure
    \/ PlaceTreasure
    \/ ReturnDungeon

SpecWFC == InitWFC /\ [][NextWFC]_vars

(***************************************************************************)
(* C1: connectivity after the repair pass.                                 *)
(***************************************************************************)
NonWallCells(map) == {c \in DOMAIN map : map[c] # "dungeon_wall"}

StairsCells == {entrance_stairs[i].dungeon_pos : i \in 1 .. Len(entrance_stairs)}

\* _connect_areas has returned
RepairDone ==
    \/ pc \in {"stairs", "treasure", "returned"}
    \/ pc = "connect" /\ (Len(floor_areas) <= 1 \/ idx > Len(floor_areas))

\* the cells of S lie in one 4-connected region of non-wall cells
InOneRegion(S, map, w, h) ==
    S = {} \/ S \subseteq AreaOf(CHOOSE c \in S : TRUE, NonWallCells(map), w, h)

\* C1: once _connect_areas has run, and in the dungeon that is returned, every
\* dungeon_floor cell and every stairs cell recorded in entrance_stairs lie in
\* one single 4-connected region of non-wall cells.
C1_FloorConnected ==
    RepairDone =>
        /\ StairsCells \subseteq DOMAIN dungeon_map
        /\ InOneRegion(FloorCells(dungeon_map) \cup StairsCells, dungeon_map,
                       width, height)

\* the repair pass has just joined three or more separate floor areas
C1_Witness ==
    /\ pc = "connect"
    /\ Len(floor_areas) >= 3
    /\ idx > Len(floor_areas)

(***************************************************************************)
(* _run_wfc with its propagation taken one stack pop at a time             *)
(* (SpecWFCSteps), to state that both loops end.                           *)
(***************************************************************************)
WFCStepInputs ==
    {<<w, 4, a, 0>> : w \in {4, 5}, a \in {LowAttempts, MaxAttempts}}

InitWFCSteps == pc = "run_wfc" /\ \E in \in WFCStepInputs : WFCStart(in)

\* the first half of an iteration: pick a candidate, pin it, call propagation
CollapseCell ==
    /\ pc = "run_wfc"
    /\ LoopRuns(attempts, possibilities)
    /\ \E c \in Candidates(possibilities) :
          \E chosen_tile \in ChoosableTiles(possibilities[c]) :
              /\ possibilities' = [possibilities EXCEPT ![c] = {chosen_tile}]
              /\ stack' = <<c>>
    /\ pc' = "propagate"
    /\ UNCHANGED <<width, height, max_attempts, entrance_locations, attempts,
                   dungeon_map, floor_areas, idx, rooms, entrance_stairs,
                   treasure_chests>>
    /\ UNCHANGED nonWFCVars

\* one iteration of "while stack" of _propagate_constraints
PropagatePop ==
    /\ pc = "propagate"
    /\ stack # <<>>
    /\ LET r == PropagateStep(possibilities, stack, width, height)
       IN  possibilities' = r.poss /\ stack' = r.stack
    /\ UNCHANGED <<pc, width, height, max_attempts, entrance_locations, attempts,
                   dungeon_map, floor_areas, idx, rooms, entrance_stairs,
                   treasure_chests>>
    /\ UNCHANGED nonWFCVars

\* _propagate_constraints returns; the iteration ends with attempts += 1
PropagateReturn ==
    /\ pc = "propagate"
    /\ stack = <<>>
    /\ attempts' = attempts + 1
    /\ pc' = "run_wfc"
    /\ UNCHANGED <<width, height, max_attempts, entrance_locations, possibilities,
                   stack, dungeon_map, floor_areas, idx, rooms, entrance_stairs,
                   treasure_chests>>
    /\ UNCHANGED nonWFCVars

\* the loop has ended: the map is derived and _run_wfc returns
ReturnMap ==
    /\ pc = "run_wfc"
    /\ ~LoopRuns(attempts, possibilities)
    /\ dungeon_map' = ConvertMap(possibilities)
    /\ pc' = "wfc_done"
    /\ UNCHANGED <<width, height, max_attempts, entrance_locations, possibilities,
                   attempts, stack, floor_areas, idx, rooms, entrance_stairs,
                   treasure_chests>>
    /\ UNCHANGED nonWFCVars

NextWFCSteps == CollapseCell \/ PropagatePop \/ PropagateReturn \/ ReturnMap

\* the program is sequential: a loop that can take a step takes it
SpecWFCSteps == InitWFCSteps /\ [][NextWFCSteps]_vars /\ WF_vars(NextWFCSteps)

\* C6: the collapse loop of _run_wfc stops and _run_wfc returns, and every
\* call of _propagate_constraints empties its stack and returns.
C6_WFCTerminates ==
    /\ <>(pc = "wfc_done")
    /\ (pc = "propagate") ~> (pc = "propagate" /\ stack = <<>>)
    /\ (pc = "propagate") ~> (pc = "run_wfc")

\* _run_wfc has returned because the attempt ceiling was reached while some
\* cell still had several possibilities
C6_Witness ==
    /\ pc = "wfc_done"
    /\ attempts = max_attempts
    /\ \E c \in DOMAIN possibilities : Cardinality(possibilities[c]) > 1

(***************************************************************************)
(* building_generator.py: the interiors.  An interior map is a function    *)
(* from the cells <<x, y>> of the interior to tile names; the code's       *)
(* interior[y][x] = t is Put(m, x, y, t).                                  *)
(***************************************************************************)
Put(m, x, y, t) == [m EXCEPT ![<<x, y>>] = t]

\* [['wall' ...]] with 'floor' for x in range(x0, x1), y in range(y0, y1)
WalledRoom(iw, ih, x0, x1, y0, y1) ==
    [c \in Cells(iw, ih) |->
        IF x0 <= c[1] /\ c[1] < x1 /\ y0 <= c[2] /\ c[2] < y1 THEN "floor" ELSE "wall"]

\* a sequence of <<x, y, tile>> writes applied in order
RECURSIVE PutAll(_, _)
PutAll(m, writes) ==
    IF writes = <<>> THEN m
    ELSE PutAll(Put(m, Head(writes)[1], Head(writes)[2], Head(writes)[3]), Tail(writes))

\* the part every layout shares: the south door and the entrance point inside it
SouthDoor(iw, ih) == <<iw \div 2, ih - 1, "south">>
EntrancePoint(iw, ih) == <<iw \div 2, ih - 1 - 1>>

NewBuilding(building_type, exterior_pos, exterior_size, iw, ih, interior, doors) ==
    [building_type |-> building_type,
     exterior_pos |-> exterior_pos,
     exterior_size |-> exterior_size,
     interior_map |-> interior,
     interior_size |-> <<iw, ih>>,
     doors |-> doors,
     entrance_points |-> <<EntrancePoint(iw, ih)>>]

_generate_house_interior(exterior_pos, exterior_size) ==
    LET iw == exterior_size[1] + 2
        ih == exterior_size[2] + 2
        base == Put(WalledRoom(iw, ih, 1, iw - 1, 1, ih - 1), iw \div 2, ih - 1, "door")
        furnished == PutAll(base, << <<iw - 2, 1, "bed">>,
                                     <<iw \div 2, ih \div 2, "table">>,
                                     <<iw \div 2, ih \div 2 + 1, "chair">> >>)
        interior == IF iw >= 4 THEN Put(furnished, 1, 1, "window") ELSE furnished
    IN  NewBuilding("house", exterior_pos, exterior_size, iw, ih, interior,
                    <<SouthDoor(iw, ih)>>)

\* the chairs around one table: a neighbour inside the walls that is still floor
RECURSIVE PlaceChairs(_, _, _, _, _, _)
PlaceChairs(m, tx, ty, k, iw, ih) ==
    LET ChairDirs == << <<0, 1>>, <<1, 0>>, <<0, -1>>, <<-1, 0>> >>
    IN  IF k > 4 THEN m
        ELSE LET cx == tx + ChairDirs[k][1]
                 cy == ty + ChairDirs[k][2]
             IN  IF /\ 1 <= cx /\ cx < iw - 1 /\ 1 <= cy /\ cy < ih - 1
                    /\ m[<<cx, cy>>] = "floor"
                 THEN PlaceChairs(Put(m, cx, cy, "chair"), tx, ty, k + 1, iw, ih)
                 ELSE PlaceChairs(m, tx, ty, k + 1, iw, ih)

RECURSIVE PlaceTables(_, _, _, _)
PlaceTables(m, table_positions, iw, ih) ==
    IF table_positions = <<>> THEN m
    ELSE LET tx == Head(table_positions)[1]
             ty == Head(table_positions)[2]
         IN  IF 1 <= tx /\ tx < iw - 1 /\ 1 <= ty /\ ty < ih - 1
             THEN PlaceTables(PlaceChairs(Put(m, tx, ty, "table"), tx, ty, 1, iw, ih),
                              Tail(table_positions), iw, ih)
             ELSE PlaceTables(m, Tail(table_positions), iw, ih)

_generate_tavern_interior(exterior_pos, exterior_size) ==
    LET iw == exterior_size[1] + 3
        ih == exterior_size[2] + 3
        base == Put(WalledRoom(iw, ih, 1, iw - 1, 1, ih - 1), iw \div 2, ih - 1, "door")
        counter == [c \in Cells(iw, ih) |->
                       IF c[2] = 2 /\ 2 <= c[1] /\ c[1] < iw - 2 THEN "counter" ELSE base[c]]
        interior == PlaceTables(counter,
                        << <<2, 4>>, <<iw - 3, 4>>, <<2, ih - 3>>, <<iw - 3, ih - 3>> >>,
                        iw, ih)
    IN  NewBuilding("tavern", exterior_pos, exterior_size, iw, ih, interior,
                    <<SouthDoor(iw, ih)>>)

_generate_forge_interior(exterior_pos, exterior_size) ==
    LET iw == exterior_size[1] + 3
        ih == exterior_size[2] + 3
        base == Put(WalledRoom(iw, ih, 1, iw - 1, 1, ih - 1), iw \div 2, ih - 1, "door")
        furnace == [c \in Cells(iw, ih) |->
                       IF c[2] = 1 /\ 2 <= c[1] /\ c[1] < iw - 2 THEN "forge" ELSE base[c]]
        anvils == PutAll(furnace, << <<2, 3, "anvil">>, <<iw - 3, 3, "anvil">> >>)
        interior == [c \in Cells(iw, ih) |->
                        IF /\ ih - 3 <= c[2] /\ c[2] < ih - 1
                           /\ c[1] \in {1, iw - 2}
                        THEN "storage" ELSE anvils[c]]
    IN  NewBuilding("forge", exterior_pos, exterior_size, iw, ih, interior,
                    <<SouthDoor(iw, ih)>>)

_generate_tower_interior(exterior_pos, exterior_size) ==
    LET iw == exterior_size[1] + 2
        ih == exterior_size[2] + 2
        base == Put(WalledRoom(iw, ih, 1, iw - 1, 1, ih - 1), iw \div 2, ih - 1, "door")
        interior == PutAll(base, << <<1, 1, "stairs_up">>,
                                    <<iw \div 2, ih \div 2, "table">> >>)
    IN  NewBuilding("tower", exterior_pos, exterior_size, iw, ih, interior,
                    <<SouthDoor(iw, ih)>>)

_generate_castle_interior(exterior_pos, exterior_size) ==
    LET iw == exterior_size[1] + 4
        ih == exterior_size[2] + 4
        base == Put(WalledRoom(iw, ih, 2, iw - 2, 2, ih - 2), iw \div 2, ih - 1, "door")
        throne == Put(base, iw \div 2, 2, "throne")
        pillars == IF iw >= 8 /\ ih >= 8
                   THEN PutAll(throne, << <<3, 4, "pillar">>, <<iw - 4, 4, "pillar">>,
                                          <<3, ih - 5, "pillar">>,
                                          <<iw - 4, ih - 5, "pillar">> >>)
                   ELSE throne
        side == [c \in Cells(iw, ih) |->
                    IF 1 <= c[1] /\ c[1] < 3 /\ 1 <= c[2] /\ c[2] < 4
                    THEN "floor" ELSE pillars[c]]
        interior == Put(side, 1, 2, "door")
    IN  NewBuilding("castle", exterior_pos, exterior_size, iw, ih, interior,
                    <<SouthDoor(iw, ih), <<1, 2, "west">> >>)

_generate_simple_interior(building_type, exterior_pos, exterior_size) ==
    LET iw == exterior_size[1] + 2
        ih == exterior_size[2] + 2
        interior == Put(WalledRoom(iw, ih, 1, iw - 1, 1, ih - 1), iw \div 2, ih - 1, "door")
    IN  NewBuilding(building_type, exterior_pos, exterior_size, iw, ih, interior,
                    <<SouthDoor(iw, ih)>>)

generate_building(building_type, exterior_pos, exterior_size) ==
    CASE building_type = "house" -> _generate_house_interior(exterior_pos, exterior_size)
      [] building_type = "tavern" -> _generate_tavern_interior(exterior_pos, exterior_size)
      [] building_type = "forge" -> _generate_forge_interior(exterior_pos, exterior_size)
      [] building_type = "tower" -> _generate_tower_interior(exterior_pos, exterior_size)
      [] building_type = "castle" -> _generate_castle_interior(exterior_pos, exterior_size)
      [] OTHER -> _generate_simple_interior(building_type, exterior_pos, exterior_size)

\* settlement_generator.py: _get_building_exterior_size
_get_building_exterior_size(building_type) ==
    CASE building_type = "house" -> <<3, 3>>
      [] building_type = "tavern" -> <<4, 4>>
      [] building_type = "forge" -> <<3, 4>>
      [] building_type = "tower" -> <<4, 4>>
      [] building_type = "castle" -> <<6, 6>>
      [] OTHER -> <<3, 3>>


(***************************************************************************)
(* BuildingGenerator.generate_building called for each type (SpecBuild).   *)
(***************************************************************************)
MaxBuildings == 2       \* the most generate_building calls in one run

\* the types of the dispatch table, and one the table does not know
BuildingTypes == {"house", "tavern", "forge", "tower", "castle", "shop"}

\* exterior positions handed in (they are stored, not used, by the generator)
BuildPositions == {<<0, 0>>, <<4, 7>>}

InitBuild ==
    /\ pc = "build"
    /\ buildings = <<>>
    /\ width = Idle /\ height = Idle /\ dungeon_map = Idle /\ terrain_map = Idle
    /\ last_call = Idle
    /\ WFCOnlyIdle /\ SettleIdle /\ LocIdle /\ TileIdle

GenerateBuilding ==
    /\ pc = "build"
    /\ Len(buildings) < MaxBuildings
    /\ \E building_type \in BuildingTypes :
          \E exterior_pos \in BuildPositions :
              buildings' = Append(buildings,
                  generate_building(building_type, exterior_pos,
                                    _get_building_exterior_size(building_type)))
    /\ UNCHANGED <<pc, width, height, dungeon_map, terrain_map, last_call,
                   wfcOnlyVars, settleVars, locVars, tileVars>>

NextBuild == GenerateBuilding

SpecBuild == InitBuild /\ [][NextBuild]_vars

BuildingsMade == {buildings[i] : i \in 1 .. Len(buildings)}

\* C9: for every building generate_building produces (house, tavern, forge,
\* tower, castle and unknown types, with the sizes of the type-to-size table)
\* the registered entrance point, the cell inside the south door where the
\* actor is placed on entry, holds a floor tile.
C9_EntranceIsFloor ==
    \A b \in BuildingsMade :
        /\ Len(b.entrance_points) >= 1
        /\ b.entrance_points[1] = <<b.doors[1][1], b.doors[1][2] - 1>>
        /\ b.interior_map[b.entrance_points[1]] = "floor"

\* C10: every generated interior contains exactly one door: one 'door' cell
\* in interior_map, one entry in the doors list, south-facing, and one
\* entrance point.
C10_ExactlyOneDoor ==
    \A b \in BuildingsMade :
        /\ Cardinality({c \in DOMAIN b.interior_map : b.interior_map[c] = "door"}) = 1
        /\ Len(b.doors) = 1
        /\ b.doors[1][3] = "south"
        /\ Len(b.entrance_points) = 1


(***************************************************************************)
(* ascii_definitions.py: the tile catalogue (name and solidity), and the   *)
(* tile queries of world.py.                                               *)
(***************************************************************************)
SolidTiles ==
    {"ocean", "river", "lake", "mountains", "high_mountains", "house", "tavern",
     "forge", "castle", "tower", "dungeon_wall"}

TileNames ==
    [ocean |-> "Ocean", river |-> "River", lake |-> "Lake",
     grasslands |-> "Grasslands", dense_grasslands |-> "Dense Grasslands",
     deciduous_forest |-> "Deciduous Forest",
     coniferous_forest |-> "Coniferous Forest", jungle |-> "Jungle",
     dense_jungle |-> "Dense Jungle", desert |-> "Desert",
     sandy_desert |-> "Sandy Desert", high_desert |-> "High Desert",
     hills |-> "Hills", grassy_hills |-> "Grassy Hills",
     rocky_hills |-> "Rocky Hills", forested_hills |-> "Forested Hills",
     mountains |-> "Mountains", high_mountains |-> "High Mountains",
     swamp |-> "Swamp", deep_swamp |-> "Deep Swamp", barren |-> "Barren Land",
     wasteland |-> "Wasteland", high_barren |-> "High Barren", road |-> "Road",
     settled_land |-> "Settled Land", house |-> "House", tavern |-> "Tavern",
     forge |-> "Forge", castle |-> "Castle", tower |-> "Tower",
     dungeon_entrance |-> "Dungeon Entrance", dungeon_exit |-> "Dungeon Exit",
     treasure_chest |-> "Treasure Chest", dungeon_floor |-> "Floor",
     dungeon_wall |-> "Wall"]

None == "None"

\* AsciiDefinitions.get_tile, then get_render_info: the fields the queries use;
\* tiles.get(tile_id) is None exactly when tile_id is not a key of the catalogue
get_tile(tile_id) == [name |-> TileNames[tile_id], solid |-> tile_id \in SolidTiles]

\* list[i] on a Python list of n items: a negative index counts from the end,
\* any other index outside the list raises IndexError
PyIndexRaises(n, i) == i >= n \/ i < -n
PyIndex(n, i) == IF i < 0 THEN n + i ELSE i

\* World.get_tile_render_info(x, y, location) on the two grids of a world:
\* the render info returned, or the exception raised
get_tile_render_info(x, y, location, overworld_tile_ids, dungeon_tile_ids, w, h) ==
    LET grid == IF location = "overworld" THEN overworld_tile_ids ELSE dungeon_tile_ids
        tile_id == grid[<<PyIndex(w, x), PyIndex(h, y)>>]
    IN  IF PyIndexRaises(h, y) \/ PyIndexRaises(w, x)
        THEN [raised |-> "IndexError"]
        ELSE IF tile_id \in DOMAIN TileNames
        THEN [raised |-> None, value |-> get_tile(tile_id)]
        ELSE [raised |-> None, value |-> [name |-> "Unknown", solid |-> TRUE]]

\* World.is_solid(x, y, location)
is_solid(x, y, location, overworld_tile_ids, dungeon_tile_ids, w, h) ==
    IF 0 <= y /\ y < h /\ 0 <= x /\ x < w
    THEN get_tile_render_info(x, y, location, overworld_tile_ids,
                              dungeon_tile_ids, w, h).value.solid
    ELSE TRUE

\* room.collidepoint(x, y) of a pygame.Rect
collidepoint(r, x, y) ==
    r.left <= x /\ x < r.left + r.w /\ r.top <= y /\ y < r.top + r.h

\* World.get_description(x, y, location); room_data is a sequence of
\* <<rect, description>>
get_description(x, y, location, overworld_tile_ids, dungeon_tile_ids, w, h, room_data) ==
    IF 0 <= y /\ y < h /\ 0 <= x /\ x < w
    THEN LET render_info == get_tile_render_info(x, y, location, overworld_tile_ids,
                                                 dungeon_tile_ids, w, h).value
             hits == {i \in 1 .. Len(room_data) : collidepoint(room_data[i][1], x, y)}
         IN  IF location = "dungeon" /\ hits # {}
             THEN render_info.name \o ": " \o room_data[SetMin(hits)][2]
             ELSE render_info.name
    ELSE "Out of bounds"

\* World.get_action_prompt(x, y, location)
get_action_prompt(x, y, location, overworld_tile_ids, dungeon_tile_ids, w, h) ==
    IF 0 <= y /\ y < h /\ 0 <= x /\ x < w
    THEN LET tile_id == IF location = "overworld" THEN overworld_tile_ids[<<x, y>>]
                        ELSE dungeon_tile_ids[<<x, y>>]
         IN  CASE tile_id = "dungeon_entrance" -> "Press Enter to enter the dungeon"
               [] tile_id = "dungeon_exit" -> "Press Enter to exit the dungeon"
               [] tile_id = "treasure_chest" -> "Press Y to take the treasure"
               [] tile_id \in {"house", "tavern", "forge"} ->
                      "Press Enter to enter the " \o tile_id
               [] OTHER -> ""
    ELSE ""


(***************************************************************************)
(* The tile queries asked of one small world (SpecQuery).                  *)
(***************************************************************************)
QueryWidth == 4         \* width of the queried world
QueryHeight == 3        \* height of the queried world
QueryReach == 1         \* how far beyond -size and size-1 the coordinates go

\* an overworld with an entrance in one corner and mountains in another
QueryOverworld ==
    [c \in Cells(QueryWidth, QueryHeight) |->
        IF c = <<0, 0>> THEN "dungeon_entrance"
        ELSE IF c = <<QueryWidth - 1, QueryHeight - 1>> THEN "mountains"
        ELSE IF c[1] = 1 THEN "house_roof"
        ELSE "grasslands"]

\* a walled dungeon with a chest on its floor
QueryDungeon ==
    [c \in Cells(QueryWidth, QueryHeight) |->
        IF c[1] \in {0, QueryWidth - 1} \/ c[2] \in {0, QueryHeight - 1}
        THEN "dungeon_wall"
        ELSE IF c = <<1, 1>> THEN "treasure_chest" ELSE "dungeon_floor"]

QueryRoomData ==
    << <<[left |-> 1, top |-> 1, w |-> QueryWidth - 2, h |-> QueryHeight - 2],
         "A dusty chamber">> >>

QueryXs == -(QueryWidth + QueryReach) .. (QueryWidth - 1 + QueryReach)
QueryYs == -(QueryHeight + QueryReach) .. (QueryHeight - 1 + QueryReach)
QueryLocations == {"overworld", "dungeon"}

InitQuery ==
    /\ pc = "query"
    /\ width = QueryWidth /\ height = QueryHeight
    /\ terrain_map = QueryOverworld
    /\ dungeon_map = QueryDungeon
    /\ last_call = [op |-> "none"]
    /\ buildings = Idle
    /\ WFCOnlyIdle /\ SettleIdle /\ LocIdle /\ TileIdle

\* the call op(x, y, location) returned result (or raised)
Asked(op, x, y, location, result) ==
    /\ pc = "query"
    /\ last_call' = [op |-> op, x |-> x, y |-> y, location |-> location,
                     result |-> result]
    /\ UNCHANGED <<pc, width, height, dungeon_map, terrain_map, buildings,
                   wfcOnlyVars, settleVars, locVars, tileVars>>

QueryRenderInfo ==
    \E x \in QueryXs, y \in QueryYs, location \in QueryLocations :
        Asked("get_tile_render_info", x, y, location,
              get_tile_render_info(x, y, location, terrain_map, dungeon_map,
                                   width, height))

QueryIsSolid ==
    \E x \in QueryXs, y \in QueryYs, location \in QueryLocations :
        Asked("is_solid", x, y, location,
              is_solid(x, y, location, terrain_map, dungeon_map, width, height))

QueryDescription ==
    \E x \in QueryXs, y \in QueryYs, location \in QueryLocations :
        Asked("get_description", x, y, location,
              get_description(x, y, location, terrain_map, dungeon_map, width,
                              height, QueryRoomData))

QueryActionPrompt ==
    \E x \in QueryXs, y \in QueryYs, location \in QueryLocations :
        Asked("get_action_prompt", x, y, location,
              get_action_prompt(x, y, location, terrain_map, dungeon_map, width,
                                height))

NextQuery == QueryRenderInfo \/ QueryIsSolid \/ QueryDescription \/ QueryActionPrompt

SpecQuery == InitQuery /\ [][NextQuery]_vars

\* C5: every tile query is total over all integer coordinates: for (x, y)
\* outside the grid, negative or at or beyond width/height,
\* get_tile_render_info, is_solid, get_description and get_action_prompt
\* return the out-of-bounds sentinel (impassable, empty text); none raises and
\* none answers with the tile of some in-bounds cell.
C5_QueriesTotal ==
    (/\ pc = "query"
     /\ last_call.op # "none"
     /\ ~InGrid(last_call.x, last_call.y, width, height))
    => CASE last_call.op = "get_tile_render_info" ->
                /\ last_call.result.raised = None
                /\ last_call.result.value = [name |-> "Unknown", solid |-> TRUE]
         [] last_call.op = "is_solid" -> last_call.result = TRUE
         [] last_call.op = "get_description" -> last_call.result = "Out of bounds"
         [] last_call.op = "get_action_prompt" -> last_call.result = ""


(***************************************************************************)
(* settlement_generator.py: laying a settlement out on the terrain.        *)
(***************************************************************************)
Buildable == {"settled_land", "grasslands", "road"}

Footprint(pos, size) ==
    (pos[1] .. pos[1] + size[1] - 1) \X (pos[2] .. pos[2] + size[2] - 1)

\* the diamond of roads and settled land, then the diagonal roads
StampSettlement(tm, center_x, center_y, size, w, h) ==
    [c \in Cells(w, h) |->
        LET dx == c[1] - center_x
            dy == c[2] - center_y
            distance == Abs(dx) + Abs(dy)
        IN  IF size >= 4 /\ Abs(dx) = Abs(dy) /\ 1 <= Abs(dx) /\ Abs(dx) < size
            THEN "road"
            ELSE IF distance <= size /\ (dx = 0 \/ dy = 0) THEN "road"
            ELSE IF distance <= size - 1 THEN "settled_land"
            ELSE tm[c]]

_get_building_types_for_settlement(settlement_type) ==
    CASE settlement_type = "hamlet" ->
             <<"house", "house", "house", "house", "tavern">>
      [] settlement_type = "village" ->
             <<"house", "house", "house", "house", "house", "house",
               "tavern", "forge", "house">>
      [] settlement_type = "town" ->
             <<"house", "house", "house", "house", "house", "house", "house",
               "house", "tavern", "tavern", "forge", "forge", "tower",
               "house", "house">>
      [] OTHER -> <<"house", "house", "tavern">>

\* the distance test of _is_position_valid against one earlier position
TooClose(x, y, building_w, building_h, other) ==
    Abs(x - other[1]) < building_w + 1 \/ Abs(y - other[2]) < building_h + 1

\* the validity test without its loop over the earlier positions
PositionValidWithoutDistance(tm, x, y, building_size, existing_positions, w, h) ==
    /\ 0 <= x /\ x < w - building_size[1]
    /\ 0 <= y /\ y < h - building_size[2]
    /\ \A c \in Footprint(<<x, y>>, building_size) : tm[c] \in Buildable

_is_position_valid(tm, x, y, building_size, existing_positions, w, h) ==
    /\ 0 <= x /\ x < w - building_size[1]
    /\ 0 <= y /\ y < h - building_size[2]
    /\ \A c \in Footprint(<<x, y>>, building_size) : tm[c] \in Buildable
    /\ \A i \in 1 .. Len(existing_positions) :
          ~TooClose(x, y, building_size[1], building_size[2], existing_positions[i])

\* the first valid position of a list of candidates, <<>> for None
RECURSIVE FirstValid(_, _, _, _, _, _)
FirstValid(candidates, tm, building_size, existing_positions, w, h) ==
    IF candidates = <<>> THEN <<>>
    ELSE IF _is_position_valid(tm, Head(candidates)[1], Head(candidates)[2],
                               building_size, existing_positions, w, h)
    THEN Head(candidates)
    ELSE FirstValid(Tail(candidates), tm, building_size, existing_positions, w, h)

\* range(-settlement_size + 1, settlement_size, 2) for grid_x, then for grid_y
GridCandidates(center_x, center_y, settlement_size) ==
    LET n == settlement_size              \* the range holds n offsets
        off(k) == -settlement_size + 1 + 2 * k
    IN  [i \in 1 .. n * n |->
            <<center_x + off((i - 1) \div n), center_y + off((i - 1) % n)>>]

_try_grid_placement(tm, center_x, center_y, settlement_size, building_size, existing_positions, w, h) ==
    FirstValid(GridCandidates(center_x, center_y, settlement_size), tm,
               building_size, existing_positions, w, h)

\* the positions random.randint can draw in _try_random_placement
RandomCandidates(center_x, center_y, settlement_size, building_size) ==
    {<<center_x + dx, center_y + dy>> :
        dx \in (-settlement_size + 1) .. (settlement_size - building_size[1]),
        dy \in (-settlement_size + 1) .. (settlement_size - building_size[2])}

_try_edge_placement(tm, center_x, center_y, settlement_size, building_size, existing_positions, w, h) ==
    FirstValid(<< <<center_x - settlement_size + 1, center_y>>,
                  <<center_x + settlement_size - building_size[1], center_y>>,
                  <<center_x, center_y - settlement_size + 1>>,
                  <<center_x, center_y + settlement_size - building_size[2]>> >>,
               tm, building_size, existing_positions, w, h)

\* the first grid position inside the map, whatever stands there and however
\* close the earlier buildings are
FindPositionInBoundsOnly(tm, center_x, center_y, settlement_size, building_size, existing_positions, w, h) ==
    LET grid == GridCandidates(center_x, center_y, settlement_size)
        inside == {i \in 1 .. Len(grid) :
                      /\ 0 <= grid[i][1] /\ grid[i][1] < w - building_size[1]
                      /\ 0 <= grid[i][2] /\ grid[i][2] < h - building_size[2]}
    IN  IF inside = {} THEN {<<>>}
        ELSE {grid[CHOOSE i \in inside : \A j \in inside : i <= j]}

\* every position _find_building_position can return (<<>> for None): the
\* grid's, else one that a random draw can hit, else, when fifty draws can
\* all miss, the edge's
_find_building_position(tm, center_x, center_y, settlement_size, building_size, existing_positions, w, h) ==
    LET grid == _try_grid_placement(tm, center_x, center_y, settlement_size,
                                    building_size, existing_positions, w, h)
        draws == RandomCandidates(center_x, center_y, settlement_size, building_size)
        hits == {p \in draws : _is_position_valid(tm, p[1], p[2], building_size,
                                                  existing_positions, w, h)}
    IN  IF grid # <<>> THEN {grid}
        ELSE hits \cup
             (IF hits # draws
              THEN {_try_edge_placement(tm, center_x, center_y, settlement_size,
                                        building_size, existing_positions, w, h)}
              ELSE {})

_place_building_exterior(tm, pos, size, building_type) ==
    [c \in DOMAIN tm |->
        IF c = <<pos[1] + size[1] \div 2, pos[2] + size[2] - 1>>
        THEN building_type \o "_door"
        ELSE IF c \in Footprint(pos, size) THEN building_type \o "_roof"
        ELSE tm[c]]


\* the cells _build_road visits: along the row of start to the column of end,
\* then along that column
RoadPath(start, end) ==
    ({<<x, start[2]>> : x \in Min(start[1], end[1]) .. Max(start[1], end[1])}
     \ {start})
    \cup ({<<end[1], y>> : y \in Min(start[2], end[2]) .. Max(start[2], end[2])}
          \ {<<end[1], start[2]>>})

\* tiles _build_road leaves alone
RoadSkips(tile) ==
    \/ tile \in {"ocean", "lake", "mountains", "high_mountains"}
    \/ \E t \in {"house", "tavern", "forge", "tower", "castle"} :
          tile \in {t \o "_roof", t \o "_door"}

_build_road(tm, start, end) ==
    [c \in DOMAIN tm |->
        IF c \in RoadPath(start, end) /\ ~RoadSkips(tm[c]) THEN "road" ELSE tm[c]]

RECURSIVE BuildRoads(_, _)
BuildRoads(tm, pairs) ==
    IF pairs = <<>> THEN tm
    ELSE BuildRoads(_build_road(tm, Head(pairs)[1], Head(pairs)[2]), Tail(pairs))

\* every settlement to the first, then each to the next
_generate_roads(tm, setts) ==
    IF Len(setts) < 2 THEN tm
    ELSE BuildRoads(tm,
             [i \in 1 .. Len(setts) - 1 |-> <<setts[i + 1].center, setts[1].center>>]
             \o [i \in 1 .. Len(setts) - 1 |-> <<setts[i].center, setts[i + 1].center>>])


(***************************************************************************)
(* generate_settlements as a state machine (SpecSettle): one step lays the *)
(* ground of a settlement, one step handles one building of its manifest.  *)
(***************************************************************************)
SettleWidth == 13       \* width of the terrain handed in
SettleHeight == 12      \* height of the terrain handed in

\* the terrains handed in: buildable everywhere, only where stamped, or
\* grasslands with ocean over the four southern rows
SettleTerrains ==
    {[c \in Cells(SettleWidth, SettleHeight) |-> fill] : fill \in {"grasslands", "ocean"}}
    \cup {[c \in Cells(SettleWidth, SettleHeight) |->
               IF c[2] < SettleHeight - 4 THEN "grasslands" ELSE "ocean"]}

\* the lists of settlement centres handed in
SettleLocationLists ==
    {<< <<5, 5>> >>,
     << <<1, SettleHeight - 1>> >>,
     << <<5, 5>>, <<8, 7>> >>,
     << <<8, 6>>, <<0, 2>> >>,
     << <<4, 4>>, <<9, 8>>, <<3, 8>> >>}

InitSettle ==
    /\ pc = "next_settlement"
    /\ width = SettleWidth /\ height = SettleHeight
    /\ terrain_map \in SettleTerrains
    /\ settlement_locations \in SettleLocationLists
    /\ settlements = <<>>
    /\ buildings = <<>>
    /\ settlement = Idle
    /\ building_types = <<>>
    /\ placed_positions = <<>>
    /\ placed_on = <<>>
    /\ dungeon_map = Idle /\ last_call = Idle
    /\ WFCOnlyIdle /\ LocIdle /\ TileIdle

settleUnused == <<dungeon_map, last_call, wfcOnlyVars, locVars, tileVars>>

\* the head of one iteration of "for i, (x, y) in enumerate(settlement_locations)":
\* the type, then _layout_settlement up to its placement loop
LayoutSettlement ==
    /\ pc = "next_settlement"
    /\ Len(settlements) < Len(settlement_locations)
    /\ LET i == Len(settlements)
           center == settlement_locations[i + 1]
       IN  \E settlement_type \in (IF i = 0 THEN {"town"}
                                   ELSE IF i = 1 THEN {"village"}
                                   ELSE {"village", "hamlet"}) :
              LET size == CASE settlement_type = "hamlet" -> 3
                            [] settlement_type = "village" -> 4
                            [] settlement_type = "town" -> 5
              IN  /\ terrain_map' = StampSettlement(terrain_map, center[1], center[2],
                                                    size, width, height)
                  /\ settlement' = [center |-> center, type |-> settlement_type,
                                    size |-> size, buildings |-> <<>>]
                  /\ building_types' = _get_building_types_for_settlement(settlement_type)
    /\ placed_positions' = <<>>
    /\ pc' = "place_buildings"
    /\ UNCHANGED <<width, height, buildings, settlement_locations, settlements,
                   placed_on, settleUnused>>

\* one iteration of "for building_type in building_types"
PlaceBuilding ==
    /\ pc = "place_buildings"
    /\ building_types # <<>>
    /\ LET building_type == Head(building_types)
           building_size == _get_building_exterior_size(building_type)
       IN  \E building_pos \in _find_building_position(terrain_map,
                   settlement.center[1], settlement.center[2], settlement.size,
                   building_size, placed_positions, width, height) :
              \/ /\ building_pos # <<>>
                 /\ terrain_map' = _place_building_exterior(terrain_map, building_pos,
                                        building_size, building_type)
                 /\ settlement' = [settlement EXCEPT !.buildings =
                        Append(@, generate_building(building_type, building_pos,
                                                    building_size))]
                 /\ placed_positions' = Append(placed_positions, building_pos)
                 /\ placed_on' = Append(placed_on,
                        {terrain_map[c] : c \in Footprint(building_pos, building_size)})
              \/ /\ building_pos = <<>>
                 /\ UNCHANGED <<terrain_map, settlement, placed_positions, placed_on>>
    /\ building_types' = Tail(building_types)
    /\ UNCHANGED <<pc, width, height, buildings, settlement_locations, settlements,
                   settleUnused>>

\* _layout_settlement returns; the settlement and its buildings are recorded
FinishSettlement ==
    /\ pc = "place_buildings"
    /\ building_types = <<>>
    /\ settlements' = Append(settlements, settlement)
    /\ buildings' = buildings \o settlement.buildings
    /\ pc' = "next_settlement"
    /\ UNCHANGED <<width, height, terrain_map, settlement_locations, settlement,
                   building_types, placed_positions, placed_on, settleUnused>>

\* the loop is over: the road network, then generate_settlements returns
GenerateRoads ==
    /\ pc = "next_settlement"
    /\ Len(settlements) = Len(settlement_locations)
    /\ terrain_map' = _generate_roads(terrain_map, settlements)
    /\ pc' = "settled"
    /\ UNCHANGED <<width, height, buildings, settlement_locations, settlements,
                   settlement, building_types, placed_positions, placed_on,
                   settleUnused>>

NextSettle == LayoutSettlement \/ PlaceBuilding \/ FinishSettlement \/ GenerateRoads

SpecSettle == InitSettle /\ [][NextSettle]_vars


\* the footprint of a building record, and that footprint grown by one tile
BuildingFootprint(b) == Footprint(b.exterior_pos, b.exterior_size)
Grown(b) ==
    ((b.exterior_pos[1] - 1) .. (b.exterior_pos[1] + b.exterior_size[1]))
    \X ((b.exterior_pos[2] - 1) .. (b.exterior_pos[2] + b.exterior_size[2]))

\* C7: after generate_settlements no two placed building footprints share a
\* cell, and every cell of each footprint held a buildable terrain type
\* (settled_land, grasslands or road) at the moment that building was placed.
C7_FootprintsDisjoint ==
    pc = "settled" =>
        /\ \A i, j \in 1 .. Len(buildings) :
              i < j => BuildingFootprint(buildings[i]) \cap BuildingFootprint(buildings[j]) = {}
        /\ \A k \in 1 .. Len(placed_on) : placed_on[k] \subseteq Buildable

\* the building lists of the settlements laid out and of the one under way
SettlementBuildingLists ==
    {settlements[i].buildings : i \in 1 .. Len(settlements)}
    \cup (IF pc = "place_buildings" THEN {settlement.buildings} ELSE {})

\* the building types _get_building_exterior_size knows a size for
BuildingKinds == {"house", "tavern", "forge", "tower", "castle"}

\* the positions of the map the validity test accepts for a building of one
\* type, against the terrain and the earlier positions of the settlement
\* under way
AcceptedPositions(building_type) ==
    {p \in Cells(width, height) :
        _is_position_valid(terrain_map, p[1], p[2],
                           _get_building_exterior_size(building_type),
                           placed_positions, width, height)}

\* a position and a size as a building record's two fields
AsBuilding(pos, size) == [exterior_pos |-> pos, exterior_size |-> size]

\* C8: every accepted building position keeps at least a one-tile gap to every
\* building placed earlier in the same settlement: the new footprint grown by
\* one tile on every side meets no earlier footprint, whatever the two sizes.
\* Checked for the buildings placed, and for every position of the map that
\* the validity test accepts for a building of any type while a settlement
\* is laid out; the earlier buildings are houses and forges, no tavern, tower
\* or castle is ever placed.
C8_OneTileGap ==
    pc \in {"next_settlement", "place_buildings", "settled"} =>
        /\ \A bl \in SettlementBuildingLists :
              /\ \A i, j \in 1 .. Len(bl) :
                    i < j => Grown(bl[j]) \cap BuildingFootprint(bl[i]) = {}
              /\ \A i \in 1 .. Len(bl) : bl[i].building_type \in {"house", "forge"}
        /\ pc = "place_buildings" =>
              \A building_type \in BuildingKinds :
                  \A p \in AcceptedPositions(building_type) :
                      \A i \in 1 .. Len(settlement.buildings) :
                          Grown(AsBuilding(p, _get_building_exterior_size(building_type)))
                              \cap BuildingFootprint(settlement.buildings[i]) = {}

\* two sizes meet: a forge stands, the house after it in the manifest is
\* tried next, and the validity test accepts positions of the map for a
\* house, a tavern, a forge and a tower against it
C8_Witness ==
    /\ pc = "place_buildings"
    /\ Len(placed_positions) = Len(settlement.buildings)
    /\ Len(settlement.buildings) >= 1
    /\ settlement.buildings[1].building_type = "forge"
    /\ building_types # <<>> /\ Head(building_types) = "house"
    /\ \A building_type \in {"house", "tavern", "forge", "tower"} :
          AcceptedPositions(building_type) # {}


(***************************************************************************)
(* building_manager.py, location_manager.py and Player.move: the location  *)
(* state machine.  lm is the record of the fields the calls read and       *)
(* write (current_location, previous_location, saved_positions,            *)
(* current_building, player); a call yields [lm |-> the fields after it,   *)
(* ret |-> what it returns].  Both managers are set (set_managers).        *)
(***************************************************************************)
\* tile_id.endswith('_door') on the tiles _place_building_exterior writes
EndsWithDoor(tile_id) ==
    \E t \in BuildingTypes : tile_id = t \o "_door"

\* an entrance test that looks at no tile
CanEnterAnywhere(player_x, player_y, tm, w, h) == TRUE

\* BuildingManager.can_enter_building
can_enter_building(player_x, player_y, tm, w, h) ==
    IF 0 <= player_y /\ player_y < h /\ 0 <= player_x /\ player_x < w
    THEN EndsWithDoor(tm[<<player_x, player_y>>])
    ELSE FALSE

\* BuildingManager.get_building_at_position: the index of the first building
\* whose footprint holds (x, y), 0 for None
get_building_at_position(blds, x, y) ==
    LET hits == {i \in 1 .. Len(blds) :
                    /\ blds[i].exterior_pos[1] <= x
                    /\ x < blds[i].exterior_pos[1] + blds[i].exterior_size[1]
                    /\ blds[i].exterior_pos[2] <= y
                    /\ y < blds[i].exterior_pos[2] + blds[i].exterior_size[2]}
    IN  IF hits = {} THEN 0 ELSE SetMin(hits)

\* BuildingManager.enter_building
enter_building(lm, blds, building) ==
    LET entered == [lm EXCEPT !.current_building = building]
        points == blds[building].entrance_points
    IN  [lm |-> IF points # <<>>
                THEN [entered EXCEPT !.player = [x |-> points[1][1], y |-> points[1][2],
                                                 location |-> "building_interior"]]
                ELSE entered,
         ret |-> TRUE]

\* leaving that moves the actor outside and keeps the building entered
ExitBuildingKeepsBuilding(lm, blds) ==
    IF lm.current_building # 0
    THEN LET b == blds[lm.current_building]
         IN  [lm |-> [lm EXCEPT !.player = [x |-> b.exterior_pos[1] + b.exterior_size[1] \div 2,
                                            y |-> b.exterior_pos[2] + b.exterior_size[2],
                                            location |-> "overworld"]],
              ret |-> TRUE]
    ELSE [lm |-> lm, ret |-> TRUE]

\* BuildingManager.exit_building
exit_building(lm, blds) ==
    IF lm.current_building # 0
    THEN LET b == blds[lm.current_building]
         IN  [lm |-> [lm EXCEPT !.player = [x |-> b.exterior_pos[1] + b.exterior_size[1] \div 2,
                                            y |-> b.exterior_pos[2] + b.exterior_size[2],
                                            location |-> "overworld"],
                                !.current_building = 0],
              ret |-> TRUE]
    ELSE [lm |-> lm, ret |-> TRUE]

\* BuildingManager.is_solid on the interior of a building
building_is_solid(x, y, b) ==
    IF 0 <= y /\ y < b.interior_size[2] /\ 0 <= x /\ x < b.interior_size[1]
    THEN b.interior_map[<<x, y>>] \in {"wall", "pillar", "storage", "counter", "bed",
                                       "table", "forge", "anvil", "throne"}
    ELSE TRUE

\* LocationManager.can_transition(player, terrain_map): the intent, or None
can_transition(lm, blds, tm, w, h) ==
    LET x == lm.player.x
        y == lm.player.y
        on(tile) == 0 <= y /\ y < h /\ 0 <= x /\ x < w /\ tm[<<x, y>>] = tile
    IN  CASE lm.current_location = "overworld" ->
                 IF can_enter_building(x, y, tm, w, h) THEN "building"
                 ELSE IF on("dungeon_entrance") THEN "dungeon"
                 ELSE None
          [] lm.current_location = "building_interior" ->
                 IF lm.current_building # 0
                 THEN LET b == blds[lm.current_building]
                      IN  IF /\ 0 <= y /\ y < b.interior_size[2]
                             /\ 0 <= x /\ x < b.interior_size[1]
                             /\ b.interior_map[<<x, y>>] = "door"
                          THEN "overworld" ELSE None
                 ELSE None
          [] lm.current_location = "dungeon" ->
                 IF on("stairs_up") THEN "overworld" ELSE None
          [] OTHER -> None

\* the manager with its saved positions left as they were
SaveNothing(lm) == lm

\* saved_positions['overworld'] = (player.x, player.y)
SaveOverworld(lm) ==
    [lm EXCEPT !.saved_positions =
        ("overworld" :> <<lm.player.x, lm.player.y>>) @@ lm.saved_positions]

\* LocationManager._enter_building
_enter_building(lm, blds) ==
    LET saved == SaveOverworld(lm)
        building == get_building_at_position(blds, lm.player.x, lm.player.y)
    IN  IF building # 0
        THEN LET entered == enter_building(saved, blds, building)
             IN  IF entered.ret
                 THEN [lm |-> [entered.lm EXCEPT !.current_location = "building_interior"],
                       ret |-> TRUE]
                 ELSE [lm |-> entered.lm, ret |-> FALSE]
        ELSE [lm |-> saved, ret |-> FALSE]

\* the same, leaving the actor where it stands in the dungeon
ExitToOverworldWhereItStands(lm, blds) ==
    CASE lm.current_location = "building_interior" ->
             LET left == exit_building(lm, blds)
             IN  IF left.ret
                 THEN [lm |-> [left.lm EXCEPT !.current_location = "overworld"],
                       ret |-> TRUE]
                 ELSE [lm |-> left.lm, ret |-> FALSE]
      [] lm.current_location = "dungeon" /\ "overworld" \in DOMAIN lm.saved_positions ->
             [lm |-> [lm EXCEPT !.player.location = "overworld",
                                !.current_location = "overworld"],
              ret |-> TRUE]
      [] OTHER -> [lm |-> lm, ret |-> FALSE]
\* LocationManager._exit_to_overworld
_exit_to_overworld(lm, blds) ==
    CASE lm.current_location = "building_interior" ->
             LET left == exit_building(lm, blds)
             IN  IF left.ret
                 THEN [lm |-> [left.lm EXCEPT !.current_location = "overworld"],
                       ret |-> TRUE]
                 ELSE [lm |-> left.lm, ret |-> FALSE]
      [] lm.current_location = "dungeon" /\ "overworld" \in DOMAIN lm.saved_positions ->
             [lm |-> [lm EXCEPT !.player = [x |-> lm.saved_positions["overworld"][1],
                                            y |-> lm.saved_positions["overworld"][2],
                                            location |-> "overworld"],
                                !.current_location = "overworld"],
              ret |-> TRUE]
      [] OTHER -> [lm |-> lm, ret |-> FALSE]

\* the position (50, 50) of the last resort
FallbackPosition == <<50, 50>>

\* the first cell of the scan that is no wall, floor or not
FirstOpenPosition(dm, w, h) ==
    LET open == {c \in Cells(w, h) : dm[c] # "dungeon_wall"}
    IN  IF open # {}
        THEN CHOOSE c \in open : \A d \in open : RowMajor(c, w) <= RowMajor(d, w)
        ELSE FallbackPosition

\* LocationManager._find_safe_dungeon_position: the first floor cell of a
\* row-major scan, else the first cell that is no wall, else (50, 50)
_find_safe_dungeon_position(dm, w, h) ==
    LET first(S) == CHOOSE c \in S : \A d \in S : RowMajor(c, w) <= RowMajor(d, w)
        floors == {c \in Cells(w, h) : dm[c] = "dungeon_floor"}
        open == {c \in Cells(w, h) : dm[c] # "dungeon_wall"}
    IN  IF floors # {} THEN first(floors)
        ELSE IF open # {} THEN first(open)
        ELSE FallbackPosition

\* LocationManager._enter_dungeon
_enter_dungeon(lm, dm, w, h) ==
    LET saved == SaveOverworld(lm)
        safe == _find_safe_dungeon_position(dm, w, h)
    IN  [lm |-> [saved EXCEPT !.player = [x |-> safe[1], y |-> safe[2],
                                          location |-> "dungeon"],
                              !.current_location = "dungeon"],
         ret |-> TRUE]

\* LocationManager._exit_dungeon
_exit_dungeon(lm, blds) == _exit_to_overworld(lm, blds)

\* LocationManager.transition_to_location(transition_type, player, terrain_map),
\* terrain_map being the dungeon's grid
transition_to_location(lm, transition_type, blds, dm, w, h) ==
    LET left == [lm EXCEPT !.previous_location = lm.current_location]
    IN  CASE transition_type = "building" -> _enter_building(left, blds)
          [] transition_type = "overworld" -> _exit_to_overworld(left, blds)
          [] transition_type = "dungeon" -> _enter_dungeon(left, dm, w, h)
          [] transition_type = "dungeon_exit" -> _exit_dungeon(left, blds)
          [] OTHER -> [lm |-> left, ret |-> FALSE]


\* the Player object that Player.move hands to world.is_solid as its third
\* argument, where World.is_solid expects the location name: it equals no
\* location name
PlayerObject == "<entities.player.Player object>"

\* Player.move(dx, dy, world): the exception raised, None for none, and the
\* fields after the call.  managers tells whether the world object has the
\* attributes location_manager and building_manager, which World.__init__
\* does not set; the bounds come from the current location, the solidity
\* from world.is_solid(new_x, new_y, self)
move(lm, dx, dy, blds, ow, dm, w, h, managers) ==
    LET inside == lm.current_location = "building_interior"
        max_x == IF inside THEN blds[lm.current_building].interior_size[1] ELSE w
        max_y == IF inside THEN blds[lm.current_building].interior_size[2] ELSE h
        new_x == lm.player.x + dx
        new_y == lm.player.y + dy
    IN  IF managers = "missing"
        THEN [raised |-> "AttributeError", lm |-> lm]
        ELSE IF \/ lm.current_location \notin {"overworld", "building_interior", "dungeon"}
                \/ (inside /\ lm.current_building = 0)
        THEN [raised |-> None, lm |-> lm]
        ELSE IF /\ 0 <= new_x /\ new_x < max_x /\ 0 <= new_y /\ new_y < max_y
                /\ ~is_solid(new_x, new_y, PlayerObject, ow, dm, w, h)
        THEN [raised |-> None,
              lm |-> [lm EXCEPT !.player.x = new_x, !.player.y = new_y,
                                !.player.location = lm.current_location]]
        ELSE [raised |-> None, lm |-> lm]

(***************************************************************************)
(* The location state machine on a small world (SpecLoc): a house and a    *)
(* dungeon entrance on grass, a dungeon of one room or of solid rock; the  *)
(* actor moves and requests transitions in any order.                      *)
(***************************************************************************)
LocWidth == 6           \* width of the overworld and of the dungeon
LocHeight == 6          \* height of the overworld and of the dungeon

LocHouseAt == <<1, 0>>
LocBuildings ==
    <<generate_building("house", LocHouseAt, _get_building_exterior_size("house"))>>

LocOverworld ==
    _place_building_exterior(
        [c \in Cells(LocWidth, LocHeight) |->
            IF c = <<LocWidth - 1, LocHeight - 2>> THEN "dungeon_entrance"
            ELSE IF c = <<0, LocHeight - 1>> THEN "mountains"
            ELSE "grasslands"],
        LocHouseAt, _get_building_exterior_size("house"), "house")

LocDungeons ==
    {[c \in Cells(LocWidth, LocHeight) |->
        IF c[1] \in {0, LocWidth - 1} \/ c[2] \in {0, LocHeight - 1} THEN "dungeon_wall"
        ELSE IF c = <<1, 1>> THEN "stairs_up"
        ELSE IF c = <<LocWidth - 2, 1>> THEN "treasure_chest"
        ELSE "dungeon_floor"],
     [c \in Cells(LocWidth, LocHeight) |-> "dungeon_wall"]}

NoTrip == [kind |-> "none", from |-> <<0, 0>>, moved |-> FALSE]

\* LocationManager.__init__, BuildingManager.__init__ with the buildings
\* added, Player.__init__ on a tile the actor can stand on
InitLoc ==
    /\ pc = "play"
    /\ width = LocWidth /\ height = LocHeight
    /\ terrain_map = LocOverworld
    /\ dungeon_map \in LocDungeons
    /\ buildings = LocBuildings
    /\ current_location = "overworld"
    /\ previous_location = None
    /\ saved_positions = [k \in {} |-> <<0, 0>>]
    /\ current_building = 0
    /\ \E c \in Cells(LocWidth, LocHeight) :
          /\ \/ EndsWithDoor(LocOverworld[c])
             \/ ~is_solid(c[1], c[2], "overworld", LocOverworld, dungeon_map,
                          LocWidth, LocHeight)
          /\ player = [x |-> c[1], y |-> c[2], location |-> "overworld"]
    /\ last_call = [op |-> "none"]
    /\ trip = NoTrip
    /\ world_managers \in {"attached", "missing"}
    /\ WFCOnlyIdle /\ SettleIdle /\ TileIdle

locUnused == <<world_managers, width, height, terrain_map, dungeon_map, buildings,
               wfcOnlyVars, settleVars, tileVars>>

LM ==
    [current_location |-> current_location, previous_location |-> previous_location,
     saved_positions |-> saved_positions, current_building |-> current_building,
     player |-> player]

Became(lm) ==
    /\ current_location' = lm.current_location
    /\ previous_location' = lm.previous_location
    /\ saved_positions' = lm.saved_positions
    /\ current_building' = lm.current_building
    /\ player' = lm.player

\* the grid the caller hands to can_transition: that of the current location
CurrentMap == IF current_location = "dungeon" THEN dungeon_map ELSE terrain_map

TransitionTypes == {"building", "overworld", "dungeon", "dungeon_exit", "tower_floor"}

\* one call of transition_to_location
Transition ==
    /\ pc = "play"
    /\ \E transition_type \in TransitionTypes :
          LET r == transition_to_location(LM, transition_type, buildings,
                                          dungeon_map, width, height)
              here == <<player.x, player.y>>
          IN  /\ Became(r.lm)
              /\ last_call' = [op |-> "transition", intent |-> transition_type,
                               result |-> r.ret]
              /\ trip' =
                   IF current_location = "overworld" /\ r.ret
                      /\ transition_type = "dungeon"
                   THEN [kind |-> "dungeon", from |-> here, moved |-> FALSE]
                   ELSE IF current_location = "overworld" /\ r.ret
                           /\ transition_type = "building"
                           /\ can_enter_building(player.x, player.y, terrain_map,
                                                 width, height)
                   THEN [kind |-> "building", from |-> here, moved |-> FALSE]
                   ELSE IF trip.kind = "dungeon"
                           /\ transition_type \in {"overworld", "dungeon_exit"}
                   THEN [trip EXCEPT !.kind = "returned"]
                   ELSE NoTrip
    /\ UNCHANGED <<pc, locUnused>>

\* one call of Player.move; the exception it raises ends the run
Move ==
    /\ pc = "play"
    /\ \E d \in {<<0, -1>>, <<0, 1>>, <<-1, 0>>, <<1, 0>>} :
          LET moved == move(LM, d[1], d[2], buildings, terrain_map, dungeon_map,
                            width, height, world_managers)
          IN  /\ Became(moved.lm)
              /\ last_call' = [op |-> "move", dx |-> d[1], dy |-> d[2],
                               raised |-> moved.raised]
              /\ pc' = IF moved.raised = None THEN pc ELSE "raised"
              /\ trip' = IF trip.kind = "dungeon"
                         THEN [trip EXCEPT !.moved = @ \/ moved.lm.player # player]
                         ELSE NoTrip
    /\ UNCHANGED locUnused

NextLoc == Transition \/ Move

SpecLoc == InitLoc /\ [][NextLoc]_vars

\* C2: a building entered from its door tile at P and left at once puts the
\* actor back on P
C2_BuildingRoundTrip ==
    [][(/\ trip.kind = "building"
        /\ last_call'.op = "transition"
        /\ last_call'.intent = "overworld")
       => (/\ last_call'.result
           /\ <<player'.x, player'.y>> = trip.from)]_vars

\* C3: a dungeon entered from overworld coordinate P and left, after any
\* number of moves, through 'overworld' or 'dungeon_exit' puts the actor back
\* on P, with current_location and player.location both 'overworld'
C3_DungeonRoundTrip ==
    [][(/\ trip.kind = "dungeon"
        /\ last_call'.op = "transition"
        /\ last_call'.intent \in {"overworld", "dungeon_exit"})
       => (/\ last_call'.result
           /\ player' = [x |-> trip.from[1], y |-> trip.from[2],
                         location |-> "overworld"]
           /\ current_location' = "overworld")]_vars

C3_Witness ==
    /\ trip.kind = "returned" /\ trip.moved
    /\ last_call.op = "transition" /\ last_call.intent = "dungeon_exit"
    /\ <<player.x, player.y>> = trip.from
    /\ current_location = "overworld"

\* C4: a transition request that can_transition does not answer with is
\* refused: it returns False and leaves current_location, the saved
\* positions, the entered building and the actor's position as they were
C4_UnsupportedIsNoOp ==
    [][(/\ last_call'.op = "transition"
        /\ can_transition(LM, buildings, CurrentMap, width, height) # last_call'.intent)
       => (/\ ~last_call'.result
           /\ current_location' = current_location
           /\ saved_positions' = saved_positions
           /\ current_building' = current_building
           /\ player'.x = player.x /\ player'.y = player.y)]_vars

(***************************************************************************)
(* C11: the stairs written by _place_special_features.                     *)
(***************************************************************************)
\* C11: in a returned dungeon that has at least one room, entrance_stairs
\* holds exactly one record per entrance position, the records name distinct
\* cells, and the stairs_up tiles of the map are exactly the recorded cells.
C11_OneStairsPerEntrance ==
    (pc = "returned" /\ rooms # <<>>) =>
        /\ Len(entrance_stairs) = Len(entrance_locations)
        /\ Cardinality(StairsCells) = Len(entrance_locations)
        /\ {c \in DOMAIN dungeon_map : dungeon_map[c] = "stairs_up"} = StairsCells

(***************************************************************************)
(* C20: the possibility sets only shrink.                                  *)
(***************************************************************************)
\* C20: across every collapse and every propagation step of _run_wfc the grid
\* keeps its cells, and the possibility set of each cell after the step is a
\* subset of its possibility set before the step.
C20_PossibilitiesShrink ==
    [][/\ DOMAIN possibilities' = DOMAIN possibilities
       /\ \A c \in DOMAIN possibilities : possibilities'[c] \subseteq possibilities[c]]_vars

\* propagation has cut a cell down to several, but not all, tiles while a
\* collapsed cell is pinned to one tile
C20_Witness ==
    /\ pc = "propagate"
    /\ \E c \in DOMAIN possibilities :
          /\ Cardinality(possibilities[c]) > 1
          /\ possibilities[c] # tile_types
    /\ \E c \in DOMAIN possibilities :
          /\ _init_wfc_grid(width, height)[c] = tile_types
          /\ Cardinality(possibilities[c]) = 1

(***************************************************************************)
(* C17: buildings placed against the manifest of the settlement type.      *)
(***************************************************************************)
\* C17: for each settlement laid out by generate_settlements the number of
\* buildings placed equals its manifest count (town 13, village 9, hamlet 5)
\* or is fewer when placement is exhausted, and is never more.
C17_PlacedWithinCount ==
    LET count(t) == CASE t = "town" -> 13 [] t = "village" -> 9 [] t = "hamlet" -> 5
    IN  pc \in {"next_settlement", "place_buildings", "settled"} =>
            /\ \A i \in 1 .. Len(settlements) :
                  Len(settlements[i].buildings) <= count(settlements[i].type)
            /\ pc = "place_buildings" =>
                  Len(settlement.buildings) <= count(settlement.type)

\* generate_settlements has returned a town and a village that each placed
\* a building and dropped the rest of the manifest
C17_Witness ==
    /\ pc = "settled"
    /\ Len(settlements) >= 2
    /\ \A i \in 1 .. Len(settlements) :
          /\ Len(settlements[i].buildings) >= 1
          /\ Len(settlements[i].buildings)
                 < Len(_get_building_types_for_settlement(settlements[i].type))

(***************************************************************************)
(* can_transition as a query (SpecCan): the manager's fields, the actor's  *)
(* position and the grid handed in are drawn at the start, then the query  *)
(* is asked.  A manager is never in 'building_interior' without a current  *)
(* building (_enter_building sets both or neither).                        *)
(***************************************************************************)
InitCan ==
    /\ pc = "ask"
    /\ width = LocWidth /\ height = LocHeight
    /\ terrain_map = LocOverworld
    /\ dungeon_map \in LocDungeons
    /\ buildings = LocBuildings
    /\ current_location \in {"overworld", "building_interior", "dungeon"}
    /\ previous_location = None
    /\ saved_positions = [k \in {} |-> <<0, 0>>]
    /\ current_building \in 0 .. Len(LocBuildings)
    /\ current_location = "building_interior" => current_building # 0
    /\ \E x \in -1 .. LocWidth, y \in -1 .. LocHeight :
          player = [x |-> x, y |-> y, location |-> current_location]
    /\ last_call = [op |-> "none"]
    /\ trip = NoTrip /\ world_managers = Idle
    /\ WFCOnlyIdle /\ SettleIdle /\ TileIdle

\* one call of can_transition(player, terrain_map) with the grid of the
\* overworld or of the dungeon; it assigns no field
AskCanTransition ==
    /\ pc = "ask"
    /\ \E grid \in {"overworld", "dungeon"} :
          last_call' =
              [op |-> "can_transition", grid |-> grid,
               result |-> can_transition(LM, buildings,
                              IF grid = "dungeon" THEN dungeon_map ELSE terrain_map,
                              width, height)]
    /\ pc' = "asked"
    /\ UNCHANGED <<width, height, terrain_map, dungeon_map, buildings, trip, world_managers,
                   wfcOnlyVars, settleVars, tileVars>>
    /\ UNCHANGED <<current_location, previous_location, saved_positions,
                   current_building, player>>

SpecCan == InitCan /\ [][AskCanTransition]_vars

\* C19: can_transition changes no field of the manager or the actor, and its
\* answer is 'building' exactly in the overworld on a tile ending in '_door',
\* 'dungeon' exactly in the overworld on 'dungeon_entrance' (no door there),
\* 'overworld' exactly in a building interior on an interior 'door' tile or in
\* a dungeon on 'stairs_up', and None in every other case, positions outside
\* the grid included.
C19_DecisionTable ==
    [][last_call'.op = "can_transition" =>
        LET x == player.x
            y == player.y
            grid == IF last_call'.grid = "dungeon" THEN dungeon_map ELSE terrain_map
            inside == x \in 0 .. width - 1 /\ y \in 0 .. height - 1
            on_door == inside /\ \E t \in BuildingTypes : grid[<<x, y>>] = t \o "_door"
            on_entrance == inside /\ grid[<<x, y>>] = "dungeon_entrance"
            on_stairs == inside /\ grid[<<x, y>>] = "stairs_up"
            on_interior_door ==
                /\ current_building # 0
                /\ <<x, y>> \in DOMAIN buildings[current_building].interior_map
                /\ buildings[current_building].interior_map[<<x, y>>] = "door"
            answer == last_call'.result
        IN  /\ UNCHANGED <<current_location, previous_location, saved_positions,
                           current_building, player>>
            /\ answer = "building" <=> current_location = "overworld" /\ on_door
            /\ answer = "dungeon" <=>
                   current_location = "overworld" /\ ~on_door /\ on_entrance
            /\ answer = "overworld" <=>
                   \/ current_location = "building_interior" /\ on_interior_door
                   \/ current_location = "dungeon" /\ on_stairs
            /\ answer \in {"building", "dungeon", "overworld", None}]_vars

\* an actor standing outside the grid in a dungeon has been answered None
C19_Witness ==
    /\ pc = "asked"
    /\ last_call.op = "can_transition"
    /\ last_call.grid = "dungeon"
    /\ current_location = "dungeon"
    /\ player.x = -1
    /\ last_call.result = None

(***************************************************************************)
(* ascii_definitions.py: visual effects and AsciiTile.get_render_info, and *)
(* World.get_tile_render_info on tile instances (SpecRender).  An effect   *)
(* is a record [kind, start_time, duration, repeat, active]; no effect     *)
(* (None) is NoEffect.  The clock is sampled every 250 ms.                 *)
(***************************************************************************)
NoEffect == [kind |-> "none"]

\* effect.start() of a freshly made ColorPulse or CharacterCycle
Started(kind, duration, now) ==
    [kind |-> kind, start_time |-> now, duration |-> duration, repeat |-> TRUE,
     active |-> TRUE]

\* VisualEffect.update: the effect afterwards and whether it is still active
update(effect, now) ==
    IF ~effect.active THEN [effect |-> effect, alive |-> FALSE]
    ELSE IF now - effect.start_time >= effect.duration
    THEN IF effect.repeat
         THEN [effect |-> [effect EXCEPT !.start_time = now], alive |-> TRUE]
         ELSE [effect |-> [effect EXCEPT !.active = FALSE], alive |-> FALSE]
    ELSE [effect |-> effect, alive |-> TRUE]

\* ColorPulse.get_current_color at the sampled progress values: the integers
\* int(c1 * (1 - factor) + c2 * factor) with factor = (sin(2 pi progress) + 1) / 2
get_current_color(effect, now) ==
    LET elapsed == now - effect.start_time
        eighth == IF elapsed >= effect.duration THEN 8
                  ELSE (8 * elapsed) \div effect.duration
        water == << <<82, 156, 230>>, <<94, 151, 234>>, <<100, 149, 237>>,
                    <<94, 151, 234>>, <<82, 156, 230>>, <<69, 161, 225>>,
                    <<64, 164, 223>>, <<69, 161, 225>>, <<82, 156, 230>> >>
        fire == << <<255, 82, 0>>, <<255, 140, 0>>, <<255, 165, 0>>,
                   <<255, 140, 0>>, <<255, 82, 0>>, <<255, 24, 0>>,
                   <<255, 0, 0>>, <<255, 24, 0>>, <<255, 82, 0>> >>
    IN  IF effect.kind = "water_pulse"
        THEN (IF effect.active THEN water[eighth + 1] ELSE <<64, 164, 223>>)
        ELSE (IF effect.active THEN fire[eighth + 1] ELSE <<255, 0, 0>>)

\* CharacterCycle.get_current_char for the four characters of 'fire', named
\* by their place in the list
get_current_char(effect, now) ==
    LET chars == <<"*", "fire_chars[1]", "fire_chars[2]", "fire_chars[3]">>
        elapsed == now - effect.start_time
        index == IF elapsed >= effect.duration THEN 0
                 ELSE ((elapsed * Len(chars)) \div effect.duration) % Len(chars)
    IN  IF effect.active THEN chars[index + 1] ELSE chars[1]

\* AsciiTile.update_effects
update_effects(tile, now) ==
    LET kept(e) == IF e.kind # "none" /\ ~update(e, now).alive THEN NoEffect
                   ELSE IF e.kind # "none" THEN update(e, now).effect
                   ELSE e
        live(overlay) == now - overlay.start_time < overlay.duration
    IN  [tile EXCEPT !.color_effect = kept(@), !.char_effect = kept(@),
                     !.overlay_chars = SelectSeq(@, live)]

\* AsciiTile.get_render_info: the tile after the call and the info returned
get_render_info(tile, now) ==
    LET t == update_effects(tile, now)
        pulsed == IF t.color_effect.kind # "none"
                  THEN get_current_color(t.color_effect, now) ELSE t.base_color
        shown ==
            IF t.overlay_chars # <<>>
            THEN [char |-> t.overlay_chars[Len(t.overlay_chars)].char,
                  color |-> t.overlay_chars[Len(t.overlay_chars)].color]
            ELSE IF t.char_effect.kind # "none" /\ t.char_effect.active
            THEN [char |-> get_current_char(t.char_effect, now), color |-> pulsed]
            ELSE [char |-> t.base_char, color |-> pulsed]
    IN  [tile |-> t,
         info |-> [char |-> shown.char, color |-> shown.color, solid |-> t.solid,
                   name |-> t.name]]

\* the AsciiTile(...) built from the definition of a tile id, without effects
TileInstance(tile_id) ==
    [base_char |-> IF tile_id = "river" THEN "~" ELSE " ",
     base_color |-> IF tile_id = "river" THEN <<64, 164, 223>> ELSE <<255, 255, 255>>,
     solid |-> get_tile(tile_id).solid, name |-> get_tile(tile_id).name,
     color_effect |-> NoEffect, char_effect |-> NoEffect, overlay_chars |-> <<>>]

\* World.get_tile_render_info(x, y, 'overworld') with the tile instances: the
\* instances after the call and the info returned.  A cell without instance
\* is answered from its definition, which carries no effect for the tile ids
\* that get no instance.
RenderInstance(x, y, tile_ids, instances, now) ==
    IF <<x, y>> \in DOMAIN instances
    THEN LET r == get_render_info(instances[<<x, y>>], now)
         IN  [instances |-> [instances EXCEPT ![<<x, y>>] = r.tile], info |-> r.info]
    ELSE [instances |-> instances,
          info |-> get_render_info(TileInstance(tile_ids[<<x, y>>]), now).info]

\* World.add_spell_effect(x, y, 'overworld', 'fire'): the instance is made if
\* missing, then create_spell_effect adds the overlay, the character cycle
\* and the colour pulse
add_spell_effect(x, y, tile_ids, instances, now) ==
    LET tile == IF <<x, y>> \in DOMAIN instances THEN instances[<<x, y>>]
                ELSE TileInstance(tile_ids[<<x, y>>])
        overlay == [char |-> "*", color |-> <<255, 0, 0>>, start_time |-> now,
                    duration |-> 500]
        cast == [tile EXCEPT !.overlay_chars = Append(@, overlay),
                             !.char_effect = Started("fire_cycle", 500, now),
                             !.color_effect = Started("fire_pulse", 500 \div 2, now)]
    IN  (<<x, y>> :> cast) @@ instances

MaxTicks == 9
MaxOverlays == 2

\* a world of one row: grasslands, then a river whose instance carries the
\* water pulse of the definition, started when the definitions were made
InitRender ==
    /\ pc = "render"
    /\ width = 2 /\ height = 1
    /\ terrain_map = (<<0, 0>> :> "grasslands") @@ (<<1, 0>> :> "river")
    /\ overworld_tiles =
          (<<1, 0>> :> [TileInstance("river") EXCEPT
                           !.color_effect = Started("water_pulse", 2000, 0)])
    /\ ticks = 0
    /\ last_call = [op |-> "none"]
    /\ dungeon_map = Idle /\ buildings = Idle
    /\ WFCOnlyIdle /\ SettleIdle /\ LocIdle

renderUnused == <<pc, width, height, terrain_map, dungeon_map, buildings,
                  wfcOnlyVars, settleVars, locVars>>

\* a quarter of a second passes; no call is made
ClockAdvances ==
    /\ pc = "render"
    /\ ticks < 250 * MaxTicks
    /\ ticks' = ticks + 250
    /\ UNCHANGED <<overworld_tiles, last_call, renderUnused>>

\* one call of get_tile_render_info(x, y, 'overworld') inside the grid
RenderTile ==
    /\ pc = "render"
    /\ \E c \in DOMAIN terrain_map :
          LET r == RenderInstance(c[1], c[2], terrain_map, overworld_tiles, ticks)
          IN  /\ overworld_tiles' = r.instances
              /\ last_call' = [op |-> "get_tile_render_info", x |-> c[1], y |-> c[2],
                               result |-> r.info]
    /\ UNCHANGED <<ticks, renderUnused>>

\* one call of add_spell_effect(x, y, 'overworld', 'fire')
CastSpell ==
    /\ pc = "render"
    /\ \E c \in DOMAIN terrain_map :
          /\ c \in DOMAIN overworld_tiles =>
                 Len(overworld_tiles[c].overlay_chars) < MaxOverlays
          /\ overworld_tiles' =
                 add_spell_effect(c[1], c[2], terrain_map, overworld_tiles, ticks)
          /\ last_call' = [op |-> "add_spell_effect", x |-> c[1], y |-> c[2]]
    /\ UNCHANGED <<ticks, renderUnused>>

\* one call of World.update_tile_effects(), which main.py makes on every
\* frame: every tile instance runs update_effects; the dungeon has no
\* instances here
UpdateTileEffects ==
    /\ pc = "render"
    /\ overworld_tiles' = [c \in DOMAIN overworld_tiles |->
                              update_effects(overworld_tiles[c], ticks)]
    /\ last_call' = [op |-> "update_tile_effects"]
    /\ UNCHANGED <<ticks, renderUnused>>

NextRender == ClockAdvances \/ RenderTile \/ CastSpell \/ UpdateTileEffects

SpecRender == InitRender /\ [][NextRender]_vars

\* C18: a call of get_tile_render_info changes no tile state, and when the
\* call before it was the same query, with no mutating call in between, it
\* returns the same result.
C18_RenderInfoIsPure ==
    [][last_call'.op = "get_tile_render_info" =>
        /\ overworld_tiles' = overworld_tiles
        /\ (/\ last_call.op = "get_tile_render_info"
            /\ last_call.x = last_call'.x
            /\ last_call.y = last_call'.y) => last_call'.result = last_call.result]_vars

(***************************************************************************)
(* The classic room-and-corridor generator (SpecClassic):                  *)
(* DungeonGenerator._generate_classic_dungeon and World._generate_dungeon, *)
(* which differ in the chest cells and in the tile written on the room     *)
(* centres.  A room is the record [left, top, w, h] of its pygame.Rect.    *)
(***************************************************************************)
ClassicWidth == 7
ClassicHeight == 10
MaxRooms == 2
MinRoomSize == 3
MaxRoomSize == 4

\* pygame.Rect.colliderect
colliderect(a, b) ==
    /\ a.left < b.left + b.w /\ b.left < a.left + a.w
    /\ a.top < b.top + b.h /\ b.top < a.top + a.h

\* the corner of a room, not its centre
TopLeft(room) == <<room.left, room.top>>

\* (room.centerx, room.centery)
Centre(room) == <<room.left + room.w \div 2, room.top + room.h \div 2>>

\* a tunnel that stops at the corner: its second leg is missing
TunnelFirstLegOnly(map, x1, y1, x2, y2, horizontal_first) ==
    LET carved == IF horizontal_first
                  THEN {<<x, y1>> : x \in Min(x1, x2) .. Max(x1, x2)}
                  ELSE {<<x1, y>> : y \in Min(y1, y2) .. Max(y1, y2)}
    IN  [c \in DOMAIN map |-> IF c \in carved THEN "dungeon_floor" ELSE map[c]]

\* _create_tunnel; horizontal_first is the outcome of random.random() < 0.5
_create_tunnel(map, x1, y1, x2, y2, horizontal_first) ==
    LET carved == IF horizontal_first
                  THEN {<<x, y1>> : x \in Min(x1, x2) .. Max(x1, x2)}
                       \cup {<<x2, y>> : y \in Min(y1, y2) .. Max(y1, y2)}
                  ELSE {<<x1, y>> : y \in Min(y1, y2) .. Max(y1, y2)}
                       \cup {<<x, y2>> : x \in Min(x1, x2) .. Max(x1, x2)}
    IN  [c \in DOMAIN map |-> IF c \in carved THEN "dungeon_floor" ELSE map[c]]

\* the rooms the four random.randint calls of one attempt can name
CandidateRooms(w, h, min_room_size, max_room_size) ==
    {[left |-> x, top |-> y, w |-> rw, h |-> rh] :
        <<rw, rh, x, y>> \in
            {q \in (min_room_size .. max_room_size) \X (min_room_size .. max_room_size)
                   \X (1 .. w) \X (1 .. h) :
                q[3] <= w - q[1] - 2 /\ q[4] <= h - q[2] - 2}}

\* the cells the two random.randint calls of a chest can name
ChestCells(room, generator) ==
    IF generator = "DungeonGenerator"
    THEN (room.left + 1 .. room.left + room.w - 2) \X (room.top + 1 .. room.top + room.h - 2)
    ELSE RectCells(room)

\* the tile written on the centre of the first rooms
CentreTile(generator) ==
    IF generator = "DungeonGenerator" THEN "stairs_up" ELSE "dungeon_exit"

InitClassic ==
    /\ pc = "classic_rooms"
    /\ width = ClassicWidth /\ height = ClassicHeight
    /\ \E generator \in {"DungeonGenerator", "World"} :
          last_call = [op |-> "_generate_classic_dungeon", generator |-> generator,
                       max_rooms |-> MaxRooms, min_room_size |-> MinRoomSize,
                       max_room_size |-> MaxRoomSize]
    /\ \E n \in 0 .. MaxEntrances : entrance_locations = EntranceList(n)
    /\ dungeon_map = [c \in Cells(ClassicWidth, ClassicHeight) |-> "dungeon_wall"]
    /\ rooms = <<>>
    /\ treasure_chests = <<>>
    /\ entrance_stairs = <<>>
    /\ idx = 1
    /\ max_attempts = Idle /\ possibilities = Idle /\ attempts = Idle
    /\ stack = Idle /\ floor_areas = Idle
    /\ terrain_map = Idle /\ buildings = Idle /\ SettleIdle /\ LocIdle /\ TileIdle

classicUnused == <<width, height, entrance_locations, last_call, max_attempts,
                   possibilities, attempts, stack, floor_areas, terrain_map,
                   buildings, settleVars, locVars, tileVars>>

\* one iteration of "for _ in range(max_rooms)": a room that overlaps an
\* accepted one is skipped, any other is floor-filled, joined to the room
\* accepted before it and accepted
ClassicRoom ==
    /\ pc = "classic_rooms"
    /\ idx <= last_call.max_rooms
    /\ \E new_room \in CandidateRooms(width, height, last_call.min_room_size,
                                      last_call.max_room_size) :
          IF \E i \in 1 .. Len(rooms) : colliderect(new_room, rooms[i])
          THEN UNCHANGED <<dungeon_map, rooms>>
          ELSE LET filled == [c \in DOMAIN dungeon_map |->
                                 IF c \in RectCells(new_room) THEN "dungeon_floor"
                                 ELSE dungeon_map[c]]
               IN  /\ rooms' = Append(rooms, new_room)
                   /\ IF rooms = <<>> THEN dungeon_map' = filled
                      ELSE \E horizontal_first \in BOOLEAN :
                              dungeon_map' =
                                  _create_tunnel(filled,
                                      Centre(rooms[Len(rooms)])[1],
                                      Centre(rooms[Len(rooms)])[2],
                                      Centre(new_room)[1], Centre(new_room)[2],
                                      horizontal_first)
    /\ idx' = idx + 1
    /\ UNCHANGED <<pc, treasure_chests, entrance_stairs, classicUnused>>

\* one iteration of "for room in rooms": the treasure roll, then the cell
ClassicChest ==
    /\ pc = "classic_chests"
    /\ idx <= Len(rooms)
    /\ \/ UNCHANGED <<dungeon_map, treasure_chests>>
       \/ \E cell \in ChestCells(rooms[idx], last_call.generator) :
             IF dungeon_map[cell] = "dungeon_floor"
             THEN /\ dungeon_map' = [dungeon_map EXCEPT ![cell] = "treasure_chest"]
                  /\ treasure_chests' = Append(treasure_chests, [pos |-> cell])
             ELSE UNCHANGED <<dungeon_map, treasure_chests>>
    /\ idx' = idx + 1
    /\ UNCHANGED <<pc, rooms, entrance_stairs, classicUnused>>

\* one iteration of the loop over the entrances: entrance i goes on the
\* centre of room i if there is one
ClassicStairs ==
    /\ pc = "classic_stairs"
    /\ idx <= Len(entrance_locations)
    /\ IF idx <= Len(rooms)
       THEN /\ dungeon_map' = [dungeon_map EXCEPT ![Centre(rooms[idx])] =
                                   CentreTile(last_call.generator)]
            /\ entrance_stairs' = Append(entrance_stairs,
                   [dungeon_pos |-> Centre(rooms[idx]),
                    overworld_pos |-> entrance_locations[idx]])
       ELSE UNCHANGED <<dungeon_map, entrance_stairs>>
    /\ idx' = idx + 1
    /\ UNCHANGED <<pc, rooms, treasure_chests, classicUnused>>

\* a loop is over: the next loop starts, and after the last the result is
\* returned
ClassicLoopEnds ==
    /\ \/ pc = "classic_rooms" /\ idx > last_call.max_rooms /\ pc' = "classic_chests"
       \/ pc = "classic_chests" /\ idx > Len(rooms) /\ pc' = "classic_stairs"
       \/ pc = "classic_stairs" /\ idx > Len(entrance_locations)
          /\ pc' = "classic_returned"
    /\ idx' = 1
    /\ UNCHANGED <<dungeon_map, rooms, treasure_chests, entrance_stairs, classicUnused>>

NextClassic == ClassicRoom \/ ClassicChest \/ ClassicStairs \/ ClassicLoopEnds

SpecClassic == InitClassic /\ [][NextClassic]_vars

\* C13 as stated: in a returned dungeon the centre cell of every accepted
\* room holds dungeon_floor.
C13_CentreIsFloor ==
    pc = "classic_returned" =>
        \A i \in 1 .. Len(rooms) :
            dungeon_map[<<rooms[i].left + rooms[i].w \div 2,
                          rooms[i].top + rooms[i].h \div 2>>] = "dungeon_floor"

\* C13 (amended): in a returned dungeon the centre cell of each of the first
\* N accepted rooms, N the number of entrances, holds the stairs tile
\* (stairs_up, or dungeon_exit in World._generate_dungeon), and the centre of
\* every other accepted room holds dungeon_floor or treasure_chest; while the
\* rooms are being made every accepted centre holds dungeon_floor.
C13_CentreIsOpen ==
    LET centre(i) == dungeon_map[<<rooms[i].left + rooms[i].w \div 2,
                                   rooms[i].top + rooms[i].h \div 2>>]
    IN  /\ pc = "classic_rooms" =>
              \A i \in 1 .. Len(rooms) : centre(i) = "dungeon_floor"
        /\ pc = "classic_returned" =>
              \A i \in 1 .. Len(rooms) :
                  IF i <= Len(entrance_locations)
                  THEN centre(i) = CentreTile(last_call.generator)
                  ELSE centre(i) \in {"dungeon_floor", "treasure_chest"}

\* a returned dungeon of two rooms and one entrance: stairs on the first
\* centre, a chest on the second
C13_Witness ==
    /\ pc = "classic_returned"
    /\ Len(rooms) = 2
    /\ Len(entrance_locations) = 1
    /\ dungeon_map[<<rooms[1].left + rooms[1].w \div 2,
                     rooms[1].top + rooms[1].h \div 2>>] = "stairs_up"
    /\ dungeon_map[<<rooms[2].left + rooms[2].w \div 2,
                     rooms[2].top + rooms[2].h \div 2>>] = "treasure_chest"

\* C14: while _generate_classic_dungeon runs and in the dungeon it returns,
\* all non-wall cells (room floors, tunnels, chests, stairs) lie in one
\* 4-connected region.
C14_ClassicConnected ==
    pc \in {"classic_rooms", "classic_chests", "classic_stairs", "classic_returned"} =>
        InOneRegion(NonWallCells(dungeon_map), dungeon_map, width, height)

\* a returned dungeon whose second room has its centre on neither the row
\* nor the column of the first room's centre, so that the tunnel had to turn
C14_Witness ==
    /\ pc = "classic_returned"
    /\ Len(rooms) = 2
    /\ rooms[1].left + rooms[1].w \div 2 # rooms[2].left + rooms[2].w \div 2
    /\ rooms[1].top + rooms[1].h \div 2 # rooms[2].top + rooms[2].h \div 2
    /\ treasure_chests # <<>>
    /\ entrance_stairs # <<>>

(***************************************************************************)
(* wfc_pattern_library.py: the themed tiles and pattern sets, and the      *)
(* themed generator built on generate_dungeon.                             *)
(***************************************************************************)
\* ThematicWFCGenerator._init_thematic_tiles: the tile ids of all themes
thematic_tile_types ==
    {"wall", "floor", "door", "corridor", "room_floor", "pillar",
     "stairs_up", "treasure", "secret", "cave_floor", "water",
     "stalactite", "temple_floor", "altar", "sacred_pillar", "temple_door",
     "shrine", "mural", "building", "street", "plaza", "city_door",
     "stall", "fountain", "crypt_floor", "sarcophagus", "tomb_wall",
     "bones", "crypt_door", "memorial"}

\* WFCPatternLibrary.pattern_sets: the 3x3 templates of each theme
pattern_sets ==
    [classic_dungeon |-> <<
        << <<"wall", "wall", "wall">>,
           <<"wall", "room_floor", "wall">>,
           <<"wall", "door", "wall">> >>,
        << <<"wall", "wall", "wall">>,
           <<"wall", "room_floor", "room_floor">>,
           <<"wall", "room_floor", "room_floor">> >>,
        << <<"wall", "corridor", "wall">>,
           <<"corridor", "corridor", "corridor">>,
           <<"wall", "corridor", "wall">> >>,
        << <<"wall", "wall", "wall">>,
           <<"corridor", "corridor", "corridor">>,
           <<"wall", "wall", "wall">> >>,
        << <<"room_floor", "room_floor", "room_floor">>,
           <<"room_floor", "pillar", "room_floor">>,
           <<"room_floor", "room_floor", "room_floor">> >>,
        << <<"wall", "door", "wall">>,
           <<"room_floor", "room_floor", "room_floor">>,
           <<"wall", "wall", "wall">> >>,
        << <<"wall", "wall", "wall">>,
           <<"wall", "secret", "wall">>,
           <<"wall", "wall", "wall">> >>,
        << <<"wall", "wall", "wall">>,
           <<"door", "treasure", "wall">>,
           <<"wall", "wall", "wall">> >> >>,
     natural_caves |-> <<
        << <<"wall", "cave_floor", "wall">>,
           <<"cave_floor", "cave_floor", "cave_floor">>,
           <<"wall", "cave_floor", "wall">> >>,
        << <<"cave_floor", "cave_floor", "cave_floor">>,
           <<"water", "water", "water">>,
           <<"cave_floor", "cave_floor", "cave_floor">> >>,
        << <<"cave_floor", "cave_floor", "cave_floor">>,
           <<"cave_floor", "stalactite", "cave_floor">>,
           <<"cave_floor", "cave_floor", "cave_floor">> >>,
        << <<"wall", "cave_floor", "wall">>,
           <<"wall", "cave_floor", "wall">>,
           <<"wall", "cave_floor", "wall">> >>,
        << <<"wall", "wall", "cave_floor">>,
           <<"wall", "cave_floor", "cave_floor">>,
           <<"cave_floor", "cave_floor", "cave_floor">> >>,
        << <<"cave_floor", "cave_floor", "cave_floor">>,
           <<"cave_floor", "water", "water">>,
           <<"cave_floor", "water", "water">> >> >>,
     ancient_temple |-> <<
        << <<"wall", "wall", "wall">>,
           <<"wall", "altar", "wall">>,
           <<"temple_floor", "temple_floor", "temple_floor">> >>,
        << <<"temple_floor", "temple_floor", "temple_floor">>,
           <<"temple_floor", "temple_floor", "temple_floor">>,
           <<"temple_floor", "temple_floor", "temple_floor">> >>,
        << <<"temple_floor", "temple_floor", "temple_floor">>,
           <<"temple_floor", "sacred_pillar", "temple_floor">>,
           <<"temple_floor", "temple_floor", "temple_floor">> >>,
        << <<"wall", "temple_door", "wall">>,
           <<"temple_floor", "temple_floor", "temple_floor">>,
           <<"temple_floor", "temple_floor", "temple_floor">> >>,
        << <<"wall", "wall", "wall">>,
           <<"wall", "shrine", "wall">>,
           <<"wall", "temple_door", "wall">> >>,
        << <<"mural", "mural", "mural">>,
           <<"temple_floor", "temple_floor", "temple_floor">>,
           <<"mural", "mural", "mural">> >> >>,
     underground_city |-> <<
        << <<"building", "building", "building">>,
           <<"street", "street", "street">>,
           <<"building", "building", "building">> >>,
        << <<"street", "street", "street">>,
           <<"street", "plaza", "street">>,
           <<"street", "street", "street">> >>,
        << <<"building", "building", "building">>,
           <<"building", "city_door", "building">>,
           <<"street", "street", "street">> >>,
        << <<"street", "street", "street">>,
           <<"street", "street", "street">>,
           <<"street", "street", "street">> >>,
        << <<"building", "building", "building">>,
           <<"street", "stall", "street">>,
           <<"street", "street", "street">> >>,
        << <<"plaza", "plaza", "plaza">>,
           <<"plaza", "fountain", "plaza">>,
           <<"plaza", "plaza", "plaza">> >> >>,
     crypts |-> <<
        << <<"wall", "wall", "wall">>,
           <<"wall", "sarcophagus", "wall">>,
           <<"crypt_floor", "crypt_floor", "crypt_floor">> >>,
        << <<"tomb_wall", "tomb_wall", "tomb_wall">>,
           <<"crypt_floor", "crypt_floor", "crypt_floor">>,
           <<"tomb_wall", "tomb_wall", "tomb_wall">> >>,
        << <<"bones", "bones", "bones">>,
           <<"crypt_floor", "crypt_floor", "crypt_floor">>,
           <<"bones", "bones", "bones">> >>,
        << <<"wall", "crypt_door", "wall">>,
           <<"crypt_floor", "crypt_floor", "crypt_floor">>,
           <<"wall", "wall", "wall">> >>,
        << <<"crypt_floor", "crypt_floor", "crypt_floor">>,
           <<"crypt_floor", "memorial", "crypt_floor">>,
           <<"crypt_floor", "crypt_floor", "crypt_floor">> >>,
        << <<"bones", "crypt_floor", "bones">>,
           <<"bones", "crypt_floor", "bones">>,
           <<"bones", "crypt_floor", "bones">> >> >>]

\* The adjacency table of the specialised generator of a theme: it is built
\* as a WFCDungeonGenerator, whose table already holds the rules of
\* room_patterns, and _build_adjacency_rules then adds the theme's rules
themed_adjacency_rules ==
    [theme \in DOMAIN pattern_sets |->
        [t \in thematic_tile_types |->
            (IF t \in tile_types THEN adjacency_rules[t] ELSE {})
                \cup AdjacencyOf(PatternsOf(pattern_sets[theme]), t)]]

\* _propagate_constraints of a generator whose adjacency table is rules
RECURSIVE PropagateWith(_, _, _, _, _)
PropagateWith(poss, stk, rules, w, h) ==
    IF stk = <<>> THEN poss
    ELSE LET c == stk[Len(stk)]
             valid_neighbors == UNION {rules[t] : t \in poss[c]}
             visit[k \in 0 .. 4] ==
                 IF k = 0 THEN [poss |-> poss, stack |-> Popped(stk)]
                 ELSE LET st == visit[k - 1]
                          n == <<c[1] + Directions[k][1], c[2] + Directions[k][2]>>
                      IN  IF ~InGrid(n[1], n[2], w, h) THEN st
                          ELSE LET new_possibilities == st.poss[n] \cap valid_neighbors
                               IN  IF Reduced(new_possibilities, st.poss[n])
                                   THEN [poss |-> [st.poss EXCEPT ![n] = new_possibilities],
                                         stack |-> IF new_possibilities # {}
                                                   THEN Append(st.stack, n)
                                                   ELSE st.stack]
                                   ELSE st
         IN  PropagateWith(visit[4].poss, visit[4].stack, rules, w, h)

\* _add_city_districts: an interior street cell with at least 15 street or
\* plaza cells in the 5x5 window around it becomes a plaza (both tiles count,
\* so the cells rewritten earlier in the scan do not change a later count)
_add_city_districts(map, w, h) ==
    [c \in DOMAIN map |->
        IF /\ c[1] \in 1 .. w - 2 /\ c[2] \in 1 .. h - 2
           /\ map[c] = "street"
           /\ Cardinality({n \in (c[1] - 2 .. c[1] + 2) \X (c[2] - 2 .. c[2] + 2) :
                              /\ InGrid(n[1], n[2], w, h)
                              /\ map[n] \in {"street", "plaza"}}) >= 15
        THEN "plaza" ELSE map[c]]

\* Whether the theme's pass of _apply_theme_post_processing reaches a use of
\* the name random, which the module never imports (NameError):
\* _add_sacred_chambers does in its first loop header, _add_underground_streams
\* at the first water cell, _add_burial_features at the first wall cell next
\* to a crypt floor
ThemePassRaises(map, theme, w, h) ==
    CASE theme = "ancient_temple" -> TRUE
      [] theme = "natural_caves" -> \E c \in DOMAIN map : map[c] = "water"
      [] theme = "crypts" ->
            \E c \in DOMAIN map :
                /\ map[c] = "wall"
                /\ \E n \in Neighbours4(c, w, h) : map[n] \in {"crypt_floor", "floor"}
      [] OTHER -> FALSE

\* _apply_theme_post_processing when its pass does not raise
_apply_theme_post_processing(map, theme, w, h) ==
    IF theme = "underground_city" THEN _add_city_districts(map, w, h) ELSE map

(***************************************************************************)
(* The entry points of dungeon generation as a state machine (SpecThemed): *)
(* WFCDungeonGenerator.generate_dungeon,                                   *)
(* ThematicWFCGenerator.generate_themed_dungeon and                        *)
(* DungeonGenerator.generate_themed_dungeon.  The steps of generate_dungeon *)
(* after the collapse loop are those of SpecWFC.                           *)
(***************************************************************************)
DefaultMaxAttempts == 1000  \* generate_dungeon(..., max_attempts=1000)
FirstDraws == 7             \* collapses already made in the runs joined under way

Themes == DOMAIN pattern_sets

\* the calls explored; the options are those of set_generation_options
ThemedCalls ==
    {[op |-> "generate_dungeon", generator |-> "WFCDungeonGenerator",
      theme |-> None, use_wfc |-> TRUE, use_themes |-> TRUE, result |-> "running"]}
    \cup {[op |-> "generate_themed_dungeon", generator |-> "ThematicWFCGenerator",
           theme |-> th, use_wfc |-> TRUE, use_themes |-> TRUE, result |-> "running"] :
             th \in Themes}
    \cup {[op |-> "generate_themed_dungeon", generator |-> "DungeonGenerator",
           theme |-> th, use_wfc |-> a, use_themes |-> b, result |-> "running"] :
             th \in Themes, a \in BOOLEAN, b \in BOOLEAN}

\* "if self.use_wfc and self.use_themes" of DungeonGenerator; the other two
\* entry points are the WFC generators themselves
UsesWFC(call) == call.generator # "DungeonGenerator" \/ (call.use_wfc /\ call.use_themes)

\* tile_types and adjacency_rules of the generator that runs the collapse
TilesOf(call) ==
    IF call.generator = "WFCDungeonGenerator" THEN tile_types ELSE thematic_tile_types
RulesOf(call) ==
    IF call.generator = "WFCDungeonGenerator" THEN adjacency_rules
    ELSE themed_adjacency_rules[call.theme]

\* _init_wfc_grid of that generator: all_tiles is its own tile_types
GridOf(call, w, h) ==
    [c \in Cells(w, h) |->
        IF _init_wfc_grid(w, h)[c] = tile_types THEN TilesOf(call)
        ELSE _init_wfc_grid(w, h)[c]]

\* the waves _run_wfc can hold after k iterations that all drew room_floor
RECURSIVE RoomFloorDraws(_, _, _, _, _)
RoomFloorDraws(waves, k, rules, w, h) ==
    IF k = 0 THEN waves
    ELSE RoomFloorDraws(
             UNION {{PropagateWith([p EXCEPT ![c] = {"room_floor"}], <<c>>, rules, w, h) :
                        c \in {d \in Candidates(p) : "room_floor" \in p[d]}} :
                    p \in waves},
             k - 1, rules, w, h)

\* A call on a 4x4 grid from its first statement, or a WFC run on a 5x5 grid
\* joined after its first FirstDraws collapses drew room_floor
InitThemed ==
    /\ last_call \in ThemedCalls
    /\ \/ /\ pc = "call"
          /\ width = 4 /\ height = 4
          /\ possibilities = <<>>
          /\ attempts = 0
       \/ /\ pc = "run_wfc"
          /\ UsesWFC(last_call)
          /\ width = 5 /\ height = 5
          /\ possibilities \in RoomFloorDraws({GridOf(last_call, 5, 5)}, FirstDraws,
                                              RulesOf(last_call), 5, 5)
          /\ attempts = FirstDraws
    /\ max_attempts = DefaultMaxAttempts
    /\ \E n \in 0 .. MaxEntrances : entrance_locations = EntranceList(n)
    /\ stack = <<>>
    /\ dungeon_map = <<>>
    /\ floor_areas = <<>>
    /\ idx = 0
    /\ rooms = <<>>
    /\ entrance_stairs = <<>>
    /\ treasure_chests = <<>>
    /\ terrain_map = Idle /\ buildings = Idle /\ SettleIdle /\ LocIdle /\ TileIdle

themedUnused == <<terrain_map, buildings, settleVars, locVars, tileVars>>

\* the WFC route: the specialised generator is built and generate_dungeon
\* initialises its grid
StartThemedWFC ==
    /\ pc = "call"
    /\ UsesWFC(last_call)
    /\ possibilities' = GridOf(last_call, width, height)
    /\ pc' = "run_wfc"
    /\ UNCHANGED <<width, height, dungeon_map, max_attempts, entrance_locations,
                   attempts, stack, floor_areas, idx, rooms, entrance_stairs,
                   treasure_chests>>
    /\ UNCHANGED nonWFCVars

\* the classic route of DungeonGenerator.generate_themed_dungeon: the call
\* _generate_classic_dungeon(width, height, entrance_locations) leaves out
\* max_rooms, min_room_size and max_room_size, which have no defaults
ClassicFallback ==
    /\ pc = "call"
    /\ ~UsesWFC(last_call)
    /\ pc' = "raised"
    /\ last_call' = [last_call EXCEPT !.result = "TypeError"]
    /\ UNCHANGED <<width, height, dungeon_map, wfcOnlyVars, themedUnused>>

\* one iteration of the loop of _run_wfc in the generator of the call
ThemedCollapse ==
    /\ pc = "run_wfc"
    /\ LoopRuns(attempts, possibilities)
    /\ \E c \in Candidates(possibilities) :
          \E chosen_tile \in ChoosableTiles(possibilities[c]) :
              possibilities' = PropagateWith([possibilities EXCEPT ![c] = {chosen_tile}],
                                             <<c>>, RulesOf(last_call), width, height)
    /\ attempts' = attempts + 1
    /\ UNCHANGED <<pc, width, height, max_attempts, entrance_locations, stack,
                   dungeon_map, floor_areas, idx, rooms, entrance_stairs,
                   treasure_chests>>
    /\ UNCHANGED nonWFCVars

\* generate_dungeon has returned to generate_themed_dungeon, which runs
\* _apply_theme_post_processing on the result and returns it
ThemePostProcess ==
    /\ pc = "returned"
    /\ last_call.generator # "WFCDungeonGenerator"
    /\ IF ThemePassRaises(dungeon_map, last_call.theme, width, height)
       THEN /\ pc' = "raised"
            /\ last_call' = [last_call EXCEPT !.result = "NameError"]
            /\ UNCHANGED dungeon_map
       ELSE /\ pc' = "themed_returned"
            /\ last_call' = [last_call EXCEPT !.result = "returned"]
            /\ dungeon_map' = _apply_theme_post_processing(dungeon_map, last_call.theme,
                                                           width, height)
    /\ UNCHANGED <<width, height, wfcOnlyVars, themedUnused>>

NextThemed ==
    \/ StartThemedWFC
    \/ ClassicFallback
    \/ ThemedCollapse
    \/ FinishWFC
    \/ ConnectArea
    \/ FindRooms
    \/ PlaceStairs
    \/ StartTreasure
    \/ PlaceTreasure
    \/ ReturnDungeon
    \/ ThemePostProcess

SpecThemed == InitThemed /\ [][NextThemed]_vars

\* the call is over: the plain generator returned, or the themed one returned
\* or raised
ThemedCallOver ==
    \/ pc \in {"themed_returned", "raised"}
    \/ pc = "returned" /\ last_call.generator = "WFCDungeonGenerator"

\* the cells on the border of the grid
BorderCells(w, h) ==
    {c \in Cells(w, h) : c[1] = 0 \/ c[1] = w - 1 \/ c[2] = 0 \/ c[2] = h - 1}

\* C12: in every dungeon map the WFC pipeline returns (generate_dungeon, and
\* generate_themed_dungeon after its theme pass) every cell on the border of
\* the grid is dungeon_wall
C12_BorderIsWall ==
    pc \in {"returned", "themed_returned"} =>
        \A c \in BorderCells(width, height) : dungeon_map[c] = "dungeon_wall"

\* a themed dungeon returned after its pass, with a room, stairs, a chest
\* and a repair corridor or an uncollapsed contradiction inside
C12_Witness ==
    /\ pc = "themed_returned"
    /\ rooms # <<>>
    /\ entrance_stairs # <<>>
    /\ treasure_chests # <<>>
    /\ \A c \in BorderCells(width, height) : dungeon_map[c] = "dungeon_wall"

\* C15: every dungeon generated with theme ancient_temple holds an altar or
\* a shrine tile in its final map
C15_TempleHasAltar ==
    (ThemedCallOver /\ last_call.theme = "ancient_temple") =>
        /\ pc = "themed_returned"
        /\ \E c \in DOMAIN dungeon_map : dungeon_map[c] \in {"altar", "shrine"}

\* C16: for each theme and each setting of the options the call runs to
\* completion and returns a dungeon; no call ends in an exception
C16_NeverRaises == pc # "raised"


(***************************************************************************)
(* The collapse loop of _run_wfc: how it ends, what it turns into a map,   *)
(* which cell it collapses and how often it runs.                          *)
(***************************************************************************)
\* the cells that still hold more than one tile
MultiValued(poss) == {c \in DOMAIN poss : Cardinality(poss[c]) > 1}

\* C21: when the loop of _run_wfc ends because no cell holds more than one
\* tile, before the attempt ceiling is reached, every cell holds exactly one
C21_NaturalEndIsComplete ==
    (pc = "run_wfc" /\ MultiValued(possibilities) = {} /\ attempts < max_attempts) =>
        \A c \in DOMAIN possibilities : Cardinality(possibilities[c]) = 1


\* C22: in the map _run_wfc produces, a cell whose set does not hold exactly
\* one tile (still ambiguous, or emptied) is dungeon_wall, a cell with one
\* tile holds the conversion of that tile, and every cell holds one of the
\* dungeon tile ids of the conversion table
C22_MapOfTheWave ==
    [][(pc = "run_wfc" /\ pc' = "connect") =>
          \A c \in DOMAIN possibilities :
              /\ dungeon_map'[c] \in
                    {"dungeon_wall", "dungeon_floor", "stairs_up", "treasure_chest"}
              /\ Cardinality(possibilities[c]) # 1 => dungeon_map'[c] = "dungeon_wall"
              /\ \A t \in possibilities[c] :
                    possibilities[c] = {t} =>
                        dungeon_map'[c] = _convert_tile_to_dungeon_tile(t)]_vars

\* the loop has ended at the ceiling with an ambiguous cell, an emptied cell
\* and a cell pinned to a tile that is no wall
C22_Witness ==
    /\ pc = "run_wfc"
    /\ ~LoopRuns(attempts, possibilities)
    /\ MultiValued(possibilities) # {}
    /\ \E c \in DOMAIN possibilities : possibilities[c] = {}
    /\ \E c \in DOMAIN possibilities :
          /\ Cardinality(possibilities[c]) = 1
          /\ ConvertMap(possibilities)[c] # "dungeon_wall"


\* C23: the cell an iteration of _run_wfc collapses has the smallest set
\* among the cells that hold more than one tile, and the tile it is pinned
\* to is a member of its set at that moment
C23_CollapsesMinimumEntropy ==
    [][(pc = "run_wfc" /\ pc' = "propagate") =>
          \E c \in MultiValued(possibilities) :
              /\ stack' = <<c>>
              /\ \A d \in MultiValued(possibilities) :
                    Cardinality(possibilities[c]) <= Cardinality(possibilities[d])
              /\ \E t \in possibilities[c] :
                    possibilities' = [possibilities EXCEPT ![c] = {t}]]_vars

\* a cell has just been pinned in a wave whose open cells differ in entropy,
\* after earlier iterations narrowed some of them
C23_Witness ==
    /\ pc = "propagate"
    /\ attempts >= 1
    /\ Len(stack) = 1
    /\ Cardinality(possibilities[stack[1]]) = 1
    /\ \E d, e \in MultiValued(possibilities) :
          Cardinality(possibilities[d]) < Cardinality(possibilities[e])


\* C24: in a themed run the adjacency table used by collapse and propagation
\* holds exactly the pairs of orthogonal neighbours in the patterns, and
\* their rotations, of the selected theme's library
C24_TableIsTheThemesOwn ==
    (pc = "run_wfc" /\ last_call.op = "generate_themed_dungeon") =>
        \A t \in thematic_tile_types :
            RulesOf(last_call)[t] = AdjacencyOf(PatternsOf(pattern_sets[last_call.theme]), t)


(***************************************************************************)
(* Entering the dungeon (SpecEnter): transition_to_location('dungeon')     *)
(* on every small dungeon grid.                                            *)
(***************************************************************************)
EnterWidth == 3         \* width of the dungeon grids entered
EnterHeight == 2        \* height of the dungeon grids entered

InitEnter ==
    /\ pc = "enter"
    /\ width = EnterWidth /\ height = EnterHeight
    /\ dungeon_map \in [Cells(EnterWidth, EnterHeight) ->
                           {"dungeon_wall", "dungeon_floor", "stairs_up"}]
    /\ buildings = <<>>
    /\ current_location = "overworld"
    /\ previous_location = None
    /\ saved_positions = [k \in {} |-> <<0, 0>>]
    /\ current_building = 0
    /\ player = [x |-> 7, y |-> 3, location |-> "overworld"]
    /\ last_call = [op |-> "none"]
    /\ trip = NoTrip /\ world_managers = Idle
    /\ terrain_map = Idle
    /\ WFCOnlyIdle /\ SettleIdle /\ TileIdle

\* transition_to_location('dungeon', player, dungeon_map)
EnterDungeon ==
    /\ pc = "enter"
    /\ LET r == transition_to_location(LM, "dungeon", buildings, dungeon_map,
                                       width, height)
       IN  /\ Became(r.lm)
           /\ last_call' = [op |-> "transition", intent |-> "dungeon",
                            result |-> r.ret]
    /\ pc' = "entered"
    /\ UNCHANGED <<width, height, terrain_map, dungeon_map, buildings, trip, world_managers,
                   wfcOnlyVars, settleVars, tileVars>>

SpecEnter == InitEnter /\ [][EnterDungeon]_vars

\* C25: on entering the dungeon the actor stands on the first dungeon_floor
\* cell in row-major order (smallest y, then smallest x); without any floor
\* cell, on the first cell that is no wall; in an all-wall map, on (50, 50)
C25_FirstFloorRowMajor ==
    pc = "entered" =>
        LET floors == {c \in DOMAIN dungeon_map : dungeon_map[c] = "dungeon_floor"}
            open == {c \in DOMAIN dungeon_map : dungeon_map[c] # "dungeon_wall"}
            at == <<player.x, player.y>>
            Earlier(a, b) == a[2] < b[2] \/ (a[2] = b[2] /\ a[1] < b[1])
        IN  /\ floors # {} =>
                  at \in floors /\ ~\E d \in floors : Earlier(d, at)
            /\ (floors = {} /\ open # {}) =>
                  at \in open /\ ~\E d \in open : Earlier(d, at)
            /\ open = {} => at = <<50, 50>>
            /\ player.location = "dungeon" /\ current_location = "dungeon"

\* the actor entered a map whose scan meets stairs before its first floor
\* cell, and that floor cell is not in the first column scanned
C25_Witness ==
    /\ pc = "entered"
    /\ dungeon_map[<<player.x, player.y>>] = "dungeon_floor"
    /\ player.y > 0 /\ player.x > 0
    /\ \E c \in DOMAIN dungeon_map :
          c[2] < player.y /\ c[1] > player.x /\ dungeon_map[c] = "stairs_up"


(***************************************************************************)
(* game/events.py: looting a chest (SpecLoot).  The world holds the dungeon *)
(* tile ids, the chest records and World.dungeon_tiles, a dict of tile     *)
(* instances keyed by (x, y) pairs; the actor carries an inventory.        *)
(***************************************************************************)
LootWidth == 4          \* width of the dungeon the actor loots in
LootHeight == 3         \* height of that dungeon
MaxChests == 2          \* the most chest records in the world

\* EventHandler.handle_item_prompt(event, world, player): the chest is the
\* first record at the actor's coordinates; on 'y' its item is appended to
\* the inventory and world.dungeon_tiles[y][x] = '.' follows, which looks up
\* the int y in a dict whose keys are pairs and raises KeyError before
\* treasure_chests.remove(chest) is reached
handle_item_prompt(event, chests, actor) ==
    LET here == {i \in 1 .. Len(chests) : chests[i].pos = <<actor.x, actor.y>>}
    IN  IF event.type # "KEYDOWN"
        THEN [raises |-> FALSE, ret |-> "item_prompt", inventory |-> actor.inventory]
        ELSE IF event.key = "K_y" /\ here # {}
        THEN [raises |-> TRUE, ret |-> None,
              inventory |-> Append(actor.inventory, chests[SetMin(here)].item)]
        ELSE [raises |-> FALSE, ret |-> "playing", inventory |-> actor.inventory]

\* a window of a dungeon World._generate_dungeon built: its last column is
\* rock or room; up to MaxChests chest records lie on distinct open cells;
\* the exits loop, which runs after the chest loop and looks at no cell, may
\* have written dungeon_exit on one open cell, a chest's cell included, and
\* the record of that chest stays.  The actor stands on any open cell.
InitLoot ==
    /\ pc = "playing"
    /\ width = LootWidth /\ height = LootHeight
    /\ \E rock \in {{}, {c \in Cells(LootWidth, LootHeight) : c[1] = LootWidth - 1}} :
          LET open == Cells(LootWidth, LootHeight) \ rock
          IN  /\ \E n \in 0 .. MaxChests :
                    \E at \in [1 .. n -> open] :
                        /\ \A i, j \in 1 .. n : i # j => at[i] # at[j]
                        /\ treasure_chests = [i \in 1 .. n |-> [pos |-> at[i], item |-> i]]
                        /\ \E exits \in {{}} \cup {{c} : c \in open} :
                              dungeon_map = [c \in Cells(LootWidth, LootHeight) |->
                                  IF c \in rock THEN "dungeon_wall"
                                  ELSE IF c \in exits THEN "dungeon_exit"
                                  ELSE IF \E i \in 1 .. n : at[i] = c THEN "treasure_chest"
                                  ELSE "dungeon_floor"]
              /\ \E c \in open :
                    player = [x |-> c[1], y |-> c[2], location |-> "dungeon",
                              inventory |-> <<>>]
    /\ world_managers \in {"attached", "missing"}
    /\ current_location = "dungeon" /\ previous_location = "overworld"
    /\ saved_positions = ("overworld" :> <<0, 0>>)
    /\ current_building = 0
    /\ last_call = [op |-> "none"]
    /\ terrain_map = Idle /\ buildings = Idle /\ trip = Idle
    /\ max_attempts = Idle /\ entrance_locations = Idle /\ possibilities = Idle
    /\ attempts = Idle /\ stack = Idle /\ floor_areas = Idle /\ idx = Idle
    /\ rooms = Idle /\ entrance_stairs = Idle
    /\ SettleIdle /\ TileIdle

lootUnused == <<width, height, terrain_map, buildings, settleVars, tileVars,
                trip, world_managers, max_attempts, entrance_locations,
                possibilities, attempts, stack, floor_areas, idx, rooms,
                entrance_stairs>>

lootManager == <<current_location, previous_location, saved_positions,
                 current_building>>

\* one call of Game.update_playing while no prompt and no panel is open:
\* handle_movement calls Player.move when a direction key is held (key is
\* <<0, 0>> when none is, or the move delay has not passed), and the
\* exception it raises ends the run; in the dungeon check_for_encounter
\* returns None; then the prompt opens when the actor's coordinates are
\* those of a chest record, whatever tile the cell holds
update_playing ==
    /\ pc = "playing"
    /\ \E key \in {<<0, 0>>, <<0, -1>>, <<0, 1>>, <<-1, 0>>, <<1, 0>>} :
          LET moved == IF key = <<0, 0>> THEN [raised |-> None, lm |-> LM]
                       ELSE move(LM, key[1], key[2], buildings, terrain_map,
                                 dungeon_map, width, height, world_managers)
              on_chest == \E i \in 1 .. Len(treasure_chests) :
                              treasure_chests[i].pos =
                                  <<moved.lm.player.x, moved.lm.player.y>>
          IN  /\ Became(moved.lm)
              /\ last_call' = [op |-> "update_playing", dx |-> key[1], dy |-> key[2],
                               raised |-> moved.raised]
              /\ pc' = IF moved.raised # None THEN "raised"
                       ELSE IF on_chest THEN "item_prompt"
                       ELSE "playing"
    /\ UNCHANGED <<dungeon_map, treasure_chests, lootUnused>>

\* one event handed to handle_item_prompt while the prompt is open
ItemPromptEvent ==
    /\ pc = "item_prompt"
    /\ \E event \in {[type |-> "KEYDOWN", key |-> "K_y"],
                     [type |-> "KEYDOWN", key |-> "K_n"],
                     [type |-> "KEYUP", key |-> "K_y"]} :
          LET r == handle_item_prompt(event, treasure_chests, player)
          IN  /\ player' = [player EXCEPT !.inventory = r.inventory]
              /\ pc' = IF r.raises THEN "raised" ELSE r.ret
              /\ last_call' = [op |-> "handle_item_prompt", event |-> event,
                               result |-> IF r.raises THEN "KeyError" ELSE r.ret]
    /\ UNCHANGED <<dungeon_map, treasure_chests, lootManager, lootUnused>>

NextLoot == update_playing \/ ItemPromptEvent

SpecLoot == InitLoot /\ [][NextLoot]_vars

\* C26: when the actor stands on a chest and confirms the pickup, the item
\* is added to the inventory once, the chest record is removed from
\* treasure_chests and the chest's cell reverts to floor
C26_LootOnce ==
    [][(/\ pc = "item_prompt"
        /\ last_call'.op = "handle_item_prompt"
        /\ last_call'.event = [type |-> "KEYDOWN", key |-> "K_y"])
       => \E i \in 1 .. Len(treasure_chests) :
              /\ treasure_chests[i].pos = <<player.x, player.y>>
              /\ player'.inventory = Append(player.inventory, treasure_chests[i].item)
              /\ Len(treasure_chests') = Len(treasure_chests) - 1
              /\ \A j \in 1 .. Len(treasure_chests') :
                    treasure_chests'[j].pos # treasure_chests[i].pos
              /\ dungeon_map'[treasure_chests[i].pos] = "dungeon_floor"
              /\ pc' = "playing"]_vars


\* C27: after any sequence of transition_to_location calls on a fresh
\* manager, whenever current_location is 'dungeon' the saved positions hold
\* an 'overworld' entry, so leaving the dungeon finds a position to restore
C27_DungeonHasSavedOverworld ==
    current_location = "dungeon" => "overworld" \in DOMAIN saved_positions

C27_Witness ==
    /\ current_location = "dungeon"
    /\ previous_location = "overworld"
    /\ last_call.op = "transition" /\ last_call.intent = "dungeon" /\ last_call.result
    /\ saved_positions["overworld"] # <<player.x, player.y>>


(***************************************************************************)
(* The location state machine driven by can_transition (SpecGuided): every *)
(* transition_to_location call is made with the intent can_transition has  *)
(* just returned, and no call is made when it returns None.                *)
(***************************************************************************)
\* can_transition followed by transition_to_location with its answer
GuidedTransition ==
    /\ pc = "play"
    /\ LET intent == can_transition(LM, buildings, CurrentMap, width, height)
       IN  /\ intent # None
           /\ LET r == transition_to_location(LM, intent, buildings, dungeon_map,
                                              width, height)
              IN  /\ Became(r.lm)
                  /\ last_call' = [op |-> "transition", intent |-> intent,
                                   result |-> r.ret]
    /\ trip' = NoTrip
    /\ UNCHANGED <<pc, locUnused>>

NextGuided == GuidedTransition \/ Move

SpecGuided == InitLoc /\ [][NextGuided]_vars

\* C28: when every transition uses the intent can_transition returned,
\* current_location is 'building_interior' exactly when a building is
\* entered, and after every successful transition player.location equals
\* current_location
C28_LocationAgrees ==
    /\ (current_location = "building_interior") <=> (current_building # 0)
    /\ (last_call.op = "transition" /\ last_call.result)
           => player.location = current_location

C28_Witness ==
    /\ last_call.op = "transition" /\ last_call.intent = "overworld" /\ last_call.result
    /\ previous_location = "building_interior"
    /\ current_location = "overworld" /\ current_building = 0
    /\ "overworld" \in DOMAIN saved_positions
    /\ saved_positions["overworld"] # <<player.x, player.y>>


\* C29: the collapse iterations of _run_wfc never outnumber the non-border
\* cells, the cells that start with more than one possibility: the
\* iterations done and the cells still multi-valued together never exceed
\* that number, so the loop ends within that many iterations
C29_IterationsBounded ==
    pc = "run_wfc" =>
        attempts + Cardinality(MultiValued(possibilities)) <= (width - 2) * (height - 2)

C29_Witness ==
    /\ pc = "run_wfc"
    /\ MultiValued(possibilities) = {}
    /\ attempts = (width - 2) * (height - 2)
    /\ attempts < max_attempts


\* C30: the records of a returned classic dungeon agree with its map: the
\* cell of every treasure_chests record holds treasure_chest and the cell of
\* every entrance_stairs record holds stairs_up
C30_RecordsAgreeWithMap ==
    pc = "classic_returned" =>
        /\ \A i \in 1 .. Len(treasure_chests) :
              dungeon_map[treasure_chests[i].pos] = "treasure_chest"
        /\ \A i \in 1 .. Len(entrance_stairs) :
              dungeon_map[entrance_stairs[i].dungeon_pos] = "stairs_up"

====
